---- MODULE Spec2Model ----
(***************************************************************************)
(* wtfDB: LRU-K replacer (memory/evictionpolicy.go), buffer pool manager   *)
(* (memory/buffer.go), disk manager (io) and B+Tree index (index).         *)
(*                                                                         *)
(* Go structs are records; a pointer to a Frame is the frame's index in    *)
(* BufferPoolManager.frames.  Every method is an operator from the         *)
(* receiver's value (and the values the run time chooses: map iteration    *)
(* order, I/O outcomes, the wall clock) to the receiver's new value and    *)
(* the method's results.  Each action of a specification is one call.     *)
(***************************************************************************)
EXTENDS Integers, Sequences, FiniteSets, TLC

VARIABLES
    bpm,      \* the BufferPoolManager, with its frames, replacer and disk manager
    tree,     \* the bPlusTree: Root node object and BPlusTreeMetadata
    now,      \* time.Now().UTC().UnixMilli(), as read by recordAccess
    crashed,  \* TRUE once a call has panicked (nil dereference, index out of range)
    lastOp,   \* the last call made: its name, arguments and results
    ledger    \* for each key, the value and the result of the first Insert called with it

vars == <<bpm, tree, now, crashed, lastOp, ledger>>

----------------------------------------------------------------------------
(* Bounds of the model *)

\* frame ids the replacer is driven with when it is exercised on its own: 0..MaxFrameId
MaxFrameId == 1
\* the wall clock runs from 0 to MaxTime milliseconds
MaxTime == 1
\* recordAccess is not called once the replacer holds MaxHistory timestamps in all
MaxHistory == 5
\* number of frames of the pool when the pool is exercised on its own
PoolSize == 2
\* page ids handed to GetPage and allocated by GetNewPageFrame: 0..MaxPageId
MaxPageId == 2
\* no call of the pool is made that would leave its replacer with more than
\* MaxPoolHistory timestamps for one frame
MaxPoolHistory == 2
\* no call is made that would raise a pin-count above MaxPinCount
MaxPinCount == 2
\* no call is made that would raise the disk manager's writeCount above MaxWrites
MaxWrites == 1
\* the bounds of the pool when it is driven until it is full: page ids allocated
\* by GetNewPageFrame are 0..MaxFullPoolPageId, and no call is made that would
\* leave the replacer with more than MaxFullPoolHistory timestamps for one frame
MaxFullPoolPageId == 3
MaxFullPoolHistory == 4
\* number of frames of the pool under the tree
TreePoolSize == 4
\* keys handed to Insert and Get: 1..MaxKey
MaxKey == 5
\* no tree call is made that would raise a pin-count above TreeMaxPinCount
TreeMaxPinCount == 3
\* FlushAllPages is left out once the disk manager has counted TreeMaxWrites writes
TreeMaxWrites == 3
\* the tree is grown by a loop that inserts the keys 2, 4, .. up to 2 * MaxLoad
MaxLoad == 9
\* Insert calls made on the grown tree
MaxGrowInserts == 3
\* frames of the pool under the grown tree
GrowPoolSize == 12
\* Inserts made after the loop before a Get
MaxLookupInserts == 2
\* the largest key and the largest page id of a serialized node
MaxCodecKey == 4
MaxCodecPageId == 2
\* the last reading of the clock that advances with every access
MaxClock == 4

----------------------------------------------------------------------------
(* Go values *)

\* math.MaxInt and math.MinInt: the largest and smallest values of the model's integers
MaxInt == 2147483647
MinInt == -2147483647

\* Go's integer division truncates toward zero
GoDiv2(n) == IF n >= 0 THEN n \div 2 ELSE -((-n) \div 2)

\* the error value nil
NoErr == ""

\* all orders in which a range over a map with key set S can visit the keys
MapOrders(S) ==
    {o \in [1..Cardinality(S) -> S] : \A i, j \in 1..Cardinality(S) : i # j => o[i] # o[j]}

\* the keys of S in the order the sequence ord (a permutation of a superset) lists them
RangeOrder(ord, S) == SelectSeq(ord, LAMBDA x : x \in S)

----------------------------------------------------------------------------
(* LruKReplacer, memory/evictionpolicy.go *)

K == 2

ErrInsufficient == "insufficient historical access data; multiple frames have +inf backward k distance"
ErrCannotEvict == "cannot evict anything -- everything is pinned or no access history"
ErrNothingLRU == "cannot evict anything"
ErrPinned == "cannot be evicted -- in use/pinned"
ErrRemovePinned == "attempting to remove a non-evictable frame"

NewLruKReplacer ==
    [k |-> K, size |-> 0, metadataStore |-> [f \in {} |-> 0], lru |-> <<>>]

\* list.MoveToBack
MoveToBack(l, x) == Append(SelectSeq(l, LAMBDA y : y # x), x)
\* list.Remove
ListRemove(l, x) == SelectSeq(l, LAMBDA y : y # x)

recordAccess(lruK, frameId, current_timestamp) ==
    LET store == lruK.metadataStore IN
    IF frameId \in DOMAIN store
    THEN [lruK EXCEPT
            !.metadataStore = [store EXCEPT ![frameId].history = Append(@, current_timestamp)],
            !.lru = MoveToBack(lruK.lru, frameId)]
    ELSE [lruK EXCEPT
            !.metadataStore = [g \in DOMAIN store \cup {frameId} |->
                                 IF g = frameId
                                 THEN [history |-> <<current_timestamp>>, isEvictable |-> FALSE]
                                 ELSE store[g]],
            !.lru = Append(lruK.lru, frameId)]

getBackwardKDistance(lruK, frameId) ==
    LET node == lruK.metadataStore[frameId]
        n == Len(node.history)
    IN  IF node.isEvictable
        THEN [dist |-> IF n >= lruK.k
                       THEN node.history[n] - node.history[lruK.k]
                       ELSE MaxInt,
              err |-> NoErr]
        ELSE [dist |-> -1, err |-> ErrPinned]

\* the loop of hasLargestKInterval over the map's keys, visited in the order `order`
RECURSIVE KIntervalLoop(_, _, _, _, _, _)
KIntervalLoop(lruK, order, idx, longestK, frameId, countInf) ==
    IF idx > Len(order) \/ countInf >= GoDiv2(lruK.size)
    THEN [longestK |-> longestK, frameId |-> frameId, countInf |-> countInf]
    ELSE LET Body(d) ==
                 IF d.err = NoErr /\ d.dist = MaxInt
                 THEN [longestK |-> longestK, frameId |-> frameId, countInf |-> countInf + 1]
                 ELSE IF longestK < d.dist
                      THEN [longestK |-> d.dist, frameId |-> order[idx], countInf |-> countInf]
                      ELSE [longestK |-> longestK, frameId |-> frameId, countInf |-> countInf]
             Rest(s) == KIntervalLoop(lruK, order, idx + 1, s.longestK, s.frameId, s.countInf)
         IN  Rest(Body(getBackwardKDistance(lruK, order[idx])))

hasLargestKInterval(lruK, order) ==
    LET Result(r) ==
            IF r.countInf > 0 /\ r.countInf <= lruK.size
            THEN [frameId |-> -1, err |-> ErrInsufficient]
            ELSE IF r.longestK > -1
                 THEN [frameId |-> r.frameId, err |-> NoErr]
                 ELSE [frameId |-> r.frameId, err |-> ErrCannotEvict]
    IN  Result(KIntervalLoop(lruK, order, 1, -1, -1, 0))

RECURSIVE LRUScan(_, _)
LRUScan(lruK, idx) ==
    IF idx > Len(lruK.lru)
    THEN [frameId |-> -1, err |-> ErrNothingLRU]
    ELSE LET frameId == lruK.lru[idx] IN
         IF lruK.metadataStore[frameId].isEvictable
            /\ Len(lruK.metadataStore[frameId].history) < lruK.k
         THEN [frameId |-> frameId, err |-> NoErr]
         ELSE LRUScan(lruK, idx + 1)

\* getLRUFrame without its test of the history's length: the first evictable frame
\* of the lru list, however many accesses it has
RECURSIVE AnyHistoryScan(_, _)
AnyHistoryScan(lruK, idx) ==
    IF idx > Len(lruK.lru)
    THEN [frameId |-> -1, err |-> ErrNothingLRU]
    ELSE IF lruK.metadataStore[lruK.lru[idx]].isEvictable
         THEN [frameId |-> lruK.lru[idx], err |-> NoErr]
         ELSE AnyHistoryScan(lruK, idx + 1)

getLRUFrameAnyHistory(lruK) == AnyHistoryScan(lruK, 1)

getLRUFrame(lruK) == LRUScan(lruK, 1)

\* cleanup without its decrement of size
cleanupKeepingSize(lruK, frameId) ==
    [lruK EXCEPT
        !.lru = ListRemove(lruK.lru, frameId),
        !.metadataStore = [g \in DOMAIN lruK.metadataStore \ {frameId} |-> lruK.metadataStore[g]]]

cleanup(lruK, frameId) ==
    [lruK EXCEPT
        !.lru = ListRemove(lruK.lru, frameId),
        !.metadataStore = [g \in DOMAIN lruK.metadataStore \ {frameId} |-> lruK.metadataStore[g]],
        !.size = lruK.size - 1]

\* evict, with the map of hasLargestKInterval ranged over in the order `order`
LruKEvict(lruK, order) ==
    LET ByLRU(r, g) ==
            IF g.err = NoErr
            THEN [lruK |-> cleanup(lruK, g.frameId), frameId |-> g.frameId, err |-> NoErr]
            ELSE [lruK |-> lruK, frameId |-> -1, err |-> r.err]
        Result(r) ==
            IF r.err = NoErr
            THEN [lruK |-> lruK, frameId |-> r.frameId, err |-> NoErr]
            ELSE IF r.err = ErrInsufficient
                 THEN ByLRU(r, getLRUFrame(lruK))
                 ELSE [lruK |-> lruK, frameId |-> -1, err |-> r.err]
    IN  Result(hasLargestKInterval(lruK, order))

\* remove without the test of the evictable flag
LruKRemoveIgnoringFlag(lruK, frameId) ==
    IF frameId \notin DOMAIN lruK.metadataStore
    THEN [lruK |-> lruK, err |-> NoErr]
    ELSE [lruK |-> cleanup(lruK, frameId), err |-> NoErr]

LruKRemove(lruK, frameId) ==
    IF frameId \notin DOMAIN lruK.metadataStore
    THEN [lruK |-> lruK, err |-> NoErr]
    ELSE IF ~lruK.metadataStore[frameId].isEvictable
         THEN [lruK |-> lruK, err |-> ErrRemovePinned]
         ELSE [lruK |-> cleanup(lruK, frameId), err |-> NoErr]

setEvictable(lruK, frameId, evictable) ==
    IF frameId \notin DOMAIN lruK.metadataStore
    THEN lruK
    ELSE LET m == lruK.metadataStore[frameId] IN
         IF m.isEvictable /\ ~evictable
         THEN [lruK EXCEPT !.metadataStore[frameId].isEvictable = FALSE,
                           !.size = lruK.size - 1]
         ELSE IF ~m.isEvictable /\ evictable
              THEN [lruK EXCEPT !.metadataStore[frameId].isEvictable = TRUE,
                                !.size = lruK.size + 1]
              ELSE lruK

----------------------------------------------------------------------------
(* Page bytes.  A page is its header fields and the 8-byte slots that       *)
(* follow the header; slots past the end of `slots` hold zero bytes.        *)
(* kind: bytes 0..3; size: bytes 4..7; for a leaf max is bytes 8..11 and    *)
(* sib bytes 12..15, for an inner page sib is bytes 8..11.                  *)

ZeroPage == [kind |-> 0, size |-> 0, max |-> 0, sib |-> 0, slots |-> <<>>]

\* the 8-byte slot at index i (from 1) after the header
Slot(data, i) == IF i <= Len(data.slots) THEN data.slots[i] ELSE 0

\* a slot sequence without its trailing zero slots
RECURSIVE TrimZeros(_)
TrimZeros(s) ==
    IF Len(s) > 0 /\ s[Len(s)] = 0 THEN TrimZeros(SubSeq(s, 1, Len(s) - 1)) ELSE s

----------------------------------------------------------------------------
(* DefaultDiskManager, io *)

ErrorReadFromDisk == "error reading from disk"
ErrorWriteToDisk == "error writing to disk"
ErrorFlushToDisk == "page contents not flushed to disk"

\* the outcomes of the file system calls behind WritePage and ReadPage
WriteOutcomes == {"ok", "write error", "sync error"}
ReadOutcomes == {"ok", "read error"}

NewDiskManager == [dbFile |-> [p \in {} |-> ZeroPage], writeCount |-> 0]

\* number of whole pages in the file
FilePages(d) ==
    IF DOMAIN d.dbFile = {} THEN 0
    ELSE 1 + (CHOOSE p \in DOMAIN d.dbFile : \A q \in DOMAIN d.dbFile : q <= p)

WritePage(d, pageId, data, w) ==
    LET counted == [d EXCEPT !.writeCount = d.writeCount + 1] IN
    IF pageId < 0 \/ w = "write error"
    THEN [d |-> counted, err |-> ErrorWriteToDisk]
    ELSE LET written == [counted EXCEPT !.dbFile =
                            [p \in DOMAIN d.dbFile \cup {pageId} |->
                                IF p = pageId THEN data ELSE d.dbFile[p]]]
         IN  IF w = "sync error"
             THEN [d |-> written, err |-> ErrorFlushToDisk]
             ELSE [d |-> written, err |-> NoErr]

\* ReadAt fills buf with what the file holds at the offset: nothing past the end of file
ReadPage(d, pageId, buf, r) ==
    IF pageId < 0 \/ r = "read error"
    THEN [buf |-> buf, err |-> ErrorReadFromDisk]
    ELSE IF pageId \in DOMAIN d.dbFile
         THEN [buf |-> d.dbFile[pageId], err |-> NoErr]
         ELSE IF pageId < FilePages(d)
              THEN [buf |-> ZeroPage, err |-> NoErr]
              ELSE [buf |-> buf, err |-> NoErr]

----------------------------------------------------------------------------
(* BufferPoolManager, memory/buffer.go *)

InvalidPageId == -1
\* the nil *Frame
NilFrame == -1

ErrMemoryFull == "internal error: memory is full - retry"

MapPut(fn, key, val) == [x \in DOMAIN fn \cup {key} |-> IF x = key THEN val ELSE fn[x]]
MapDelete(fn, key) == [x \in DOMAIN fn \ {key} |-> fn[x]]

newFrame(i) ==
    [Id |-> i, PageId |-> InvalidPageId, IsDirty |-> FALSE, refBit |-> FALSE,
     pinCount |-> 0, Data |-> ZeroPage]

NewBufferPoolManager(dsm, size) ==
    [frames |-> [i \in 0..(size - 1) |-> newFrame(i)],
     freeFrames |-> [i \in 1..size |-> i - 1],
     pageToFrame |-> [p \in {} |-> 0],
     nextPageId |-> 0,
     diskManager |-> dsm,
     lrukreplacer |-> NewLruKReplacer,
     size |-> size]

\* the run-time choices of one call: map iteration order and the outcomes of the I/O
Choices(order, write, read) == [order |-> order, write |-> write, read |-> read]

\* Pin with the flag of its setEvictable call inverted
PinMarkingEvictable(m, f, ts) ==
    LET id == m.frames[f].Id IN
    [m EXCEPT !.frames[f].pinCount = @ + 1,
              !.lrukreplacer = setEvictable(recordAccess(m.lrukreplacer, id, ts), id, TRUE)]

Pin(m, f, ts) ==
    LET id == m.frames[f].Id IN
    [m EXCEPT !.frames[f].pinCount = @ + 1,
              !.lrukreplacer = setEvictable(recordAccess(m.lrukreplacer, id, ts), id, FALSE)]

\* Unpin without the test of the pin-count
UnpinBelowZero(m, f) ==
    [m EXCEPT !.frames[f].pinCount = @ - 1,
              !.lrukreplacer = setEvictable(m.lrukreplacer, m.frames[f].Id,
                                            m.frames[f].pinCount - 1 = 0)]

Unpin(m, f) ==
    IF m.frames[f].pinCount <= 0
    THEN m
    ELSE [m EXCEPT !.frames[f].pinCount = @ - 1,
                   !.lrukreplacer = setEvictable(m.lrukreplacer, m.frames[f].Id,
                                                 m.frames[f].pinCount - 1 = 0)]

\* FlushPage that clears the dirty flag without calling WritePage
FlushPageWithoutWrite(m, pageId, w) ==
    IF pageId \notin DOMAIN m.pageToFrame
    THEN [m |-> m, ok |-> FALSE]
    ELSE [m |-> [m EXCEPT !.frames[m.pageToFrame[pageId]].IsDirty = FALSE], ok |-> TRUE]

FlushPage(m, pageId, w) ==
    IF pageId \notin DOMAIN m.pageToFrame
    THEN [m |-> m, ok |-> FALSE]
    ELSE LET frameId == m.pageToFrame[pageId]
             Written(wr) ==
                 IF wr.err # NoErr
                 THEN [m |-> [m EXCEPT !.diskManager = wr.d], ok |-> FALSE]
                 ELSE [m |-> [m EXCEPT !.diskManager = wr.d,
                                       !.frames[frameId].IsDirty = FALSE],
                       ok |-> TRUE]
         IN  IF ~m.frames[frameId].IsDirty
             THEN [m |-> m, ok |-> TRUE]
             ELSE Written(WritePage(m.diskManager, pageId, m.frames[frameId].Data, w))

\* FlushAllPages ranges over pageToFrame in the order `order`; writes[p] is the outcome
\* of the write of page p.  allFlushed && m.FlushPage(pageId) does not call FlushPage
\* once allFlushed is false
RECURSIVE FlushAllLoop(_, _, _, _, _)
FlushAllLoop(m, order, writes, idx, allFlushed) ==
    IF idx > Len(order)
    THEN [m |-> m, ok |-> allFlushed]
    ELSE LET Rest(r) == FlushAllLoop(r.m, order, writes, idx + 1, r.ok) IN
         Rest(IF ~allFlushed
              THEN [m |-> m, ok |-> FALSE]
              ELSE FlushPage(m, order[idx], writes[order[idx]]))

FlushAllPages(m, order, writes) == FlushAllLoop(m, order, writes, 1, TRUE)

\* BufferPoolManager.evict; victims holds the frame the replacer chose, with the
\* pin-count, page id and dirty flag it had when chosen
BpmEvict(m, c) ==
    LET Chosen(e) == {[frame |-> e.frameId,
                       pinCount |-> m.frames[e.frameId].pinCount,
                       PageId |-> m.frames[e.frameId].PageId,
                       IsDirty |-> m.frames[e.frameId].IsDirty]}
        Flushed(e, fl) ==
            IF ~fl.ok
            THEN [m |-> fl.m, evicted |-> FALSE, i |-> -1, victims |-> Chosen(e)]
            ELSE [m |-> [fl.m EXCEPT !.pageToFrame =
                                  MapDelete(@, fl.m.frames[e.frameId].PageId)],
                  evicted |-> TRUE, i |-> e.frameId, victims |-> Chosen(e)]
        Evicted(e) ==
            IF e.err # NoErr
            THEN [m |-> [m EXCEPT !.lrukreplacer = e.lruK],
                  evicted |-> FALSE, i |-> -1, victims |-> {}]
            ELSE Flushed(e, FlushPage([m EXCEPT !.lrukreplacer = e.lruK],
                                      m.frames[e.frameId].PageId, c.write))
    IN  Evicted(LruKEvict(m.lrukreplacer,
                          RangeOrder(c.order, DOMAIN m.lrukreplacer.metadataStore)))

newPage(m, c) ==
    LET newPageId == m.nextPageId
        m1 == [m EXCEPT !.nextPageId = @ + 1]
        Reused(e) ==
            IF ~e.evicted
            THEN [m |-> e.m, pageId |-> InvalidPageId, victims |-> e.victims]
            ELSE [m |-> [e.m EXCEPT
                           !.frames[e.i] = [@ EXCEPT !.Id = e.i, !.PageId = newPageId,
                                                     !.IsDirty = FALSE, !.refBit = FALSE,
                                                     !.pinCount = 0],
                           !.pageToFrame = MapPut(@, newPageId, e.i)],
                  pageId |-> newPageId, victims |-> e.victims]
    IN  IF Len(m.freeFrames) > 0
        THEN [m |-> [m1 EXCEPT !.freeFrames = Tail(@),
                               !.pageToFrame = MapPut(@, newPageId, m.freeFrames[1]),
                               !.frames[m.freeFrames[1]].PageId = newPageId],
              pageId |-> newPageId, victims |-> {}]
        ELSE Reused(BpmEvict(m1, c))

\* the error of ReadPage is not looked at
getPageFrame(m, pageId, c) ==
    LET Reused(e) ==
            IF ~e.evicted
            THEN [m |-> e.m, f |-> NilFrame, err |-> ErrMemoryFull, victims |-> e.victims]
            ELSE [m |-> [e.m EXCEPT
                           !.frames[e.i] =
                               [@ EXCEPT !.Id = e.i, !.PageId = pageId,
                                         !.IsDirty = FALSE, !.refBit = FALSE,
                                         !.pinCount = 0,
                                         !.Data = ReadPage(e.m.diskManager, pageId,
                                                           e.m.frames[e.i].Data, c.read).buf],
                           !.pageToFrame = MapPut(@, pageId, e.i)],
                  f |-> e.i, err |-> NoErr, victims |-> e.victims]
    IN  IF pageId \in DOMAIN m.pageToFrame
        THEN [m |-> m, f |-> m.pageToFrame[pageId], err |-> NoErr, victims |-> {}]
        ELSE IF Len(m.freeFrames) > 0
             THEN [m |-> [m EXCEPT
                            !.pageToFrame = MapPut(@, pageId, m.freeFrames[1]),
                            !.frames[m.freeFrames[1]] =
                                [@ EXCEPT !.PageId = pageId,
                                          !.Data = ReadPage(m.diskManager, pageId,
                                                            @, c.read).buf]],
                   f |-> m.freeFrames[1], err |-> NoErr, victims |-> {}]
             ELSE Reused(BpmEvict(m, c))

GetPage(m, pageId, c, ts) ==
    LET Got(g) ==
            IF g.err # NoErr
            THEN [m |-> g.m, f |-> NilFrame, err |-> g.err, victims |-> g.victims]
            ELSE [m |-> Pin(g.m, g.f, ts), f |-> g.f, err |-> NoErr, victims |-> g.victims]
    IN  Got(getPageFrame(m, pageId, c))

\* c1 are the choices made in newPage, c2 those made in GetPage
GetNewPageFrame(m, c1, c2, ts) ==
    LET Got(n, g) == [g EXCEPT !.victims = n.victims \cup g.victims]
        Allocated(n) == Got(n, GetPage(n.m, n.pageId, c2, ts))
    IN  Allocated(newPage(m, c1))

DeletePage(m, pageId) == [m |-> m, ok |-> FALSE, err |-> NoErr]

----------------------------------------------------------------------------
(* B+Tree nodes, index *)

\* the u32 stand-in for a value of 2^32 - 1 read back as an unsigned number;
\* it lies above every page id and below MaxInt
MaxUint32 == 2147483646
NonExistentSiblingLink == MaxInt
InvalidKey == -1

\* uint32(x) as the signed reading of its 32 bits: -1 and math.MaxInt both give all ones
PutUint32(x) == IF x = MaxInt THEN -1 ELSE x
\* int(int32(u)): sign extension
Int32ToInt(u) == u
\* int(u): zero extension
Uint32ToInt(u) == IF u >= 0 THEN u ELSE MaxUint32 + (u + 1)
\* binary.LittleEndian.Uint64 of eight bytes written by binary.BigEndian.PutUint64:
\* the bytes reversed (for 0 < x < 256 the low byte becomes the high byte of the word)
LittleEndianOfBigEndian(x) == IF x = 0 \/ x = -1 THEN x ELSE x * 16777216

\* slices.BinarySearch: position and found flag, positions counted from 0
RECURSIVE BinarySearchLoop(_, _, _, _)
BinarySearchLoop(x, target, i, j) ==
    IF i < j
    THEN LET h == (i + j) \div 2 IN
         IF x[h + 1] < target
         THEN BinarySearchLoop(x, target, h + 1, j)
         ELSE BinarySearchLoop(x, target, i, h)
    ELSE [pos |-> i, found |-> i < Len(x) /\ x[i + 1] = target]

BinarySearch(x, target) == BinarySearchLoop(x, target, 0, Len(x))

\* slices.Insert(s, pos, v), pos counted from 0
SliceInsert(s, pos, v) == SubSeq(s, 1, pos) \o <<v>> \o SubSeq(s, pos + 1, Len(s))
\* s[from:], s[:to], positions counted from 0
SliceFrom(s, from) == SubSeq(s, from + 1, Len(s))
SliceTo(s, to) == SubSeq(s, 1, to)

NodeMaxSize == 8

getSize(n) == IF n.leaf THEN Len(n.keys) + Len(n.recordIds) ELSE Len(n.keys) + Len(n.children)
getMaxSize(n) == NodeMaxSize

LeafObject(keys, recordIds, rightSibling, frame) ==
    [leaf |-> TRUE, keys |-> keys, recordIds |-> recordIds, children |-> <<>>,
     rightSibling |-> rightSibling, frame |-> frame]

InnerObject(keys, children, rightSibling, frame) ==
    [leaf |-> FALSE, keys |-> keys, recordIds |-> <<>>, children |-> children,
     rightSibling |-> rightSibling, frame |-> frame]

\* leafNode.toBytes: the bytes written into the node's frame
leafToBytes(l) ==
    [kind |-> 1, size |-> getSize(l), max |-> getMaxSize(l),
     sib |-> PutUint32(l.rightSibling),
     slots |-> TrimZeros(l.keys \o l.recordIds)]

\* fromBytes reading the right sibling without the conversion to int32
leafFromBytesUnsigned(l, data) ==
    IF data.kind # 1
    THEN [node |-> l, err |-> "internal error -- not a leaf page"]
    ELSE LET n == data.size \div 2 IN
         [node |-> [l EXCEPT !.keys = [i \in 1..n |-> Slot(data, i)],
                             !.recordIds = [i \in 1..n |-> Slot(data, n + i)],
                             !.rightSibling = Uint32ToInt(data.sib)],
          err |-> NoErr]

\* leafNode.fromBytes: the node with the fields read from data, or an error
leafFromBytes(l, data) ==
    IF data.kind # 1
    THEN [node |-> l, err |-> "internal error -- not a leaf page"]
    ELSE LET n == data.size \div 2 IN
         [node |-> [l EXCEPT !.keys = [i \in 1..n |-> Slot(data, i)],
                             !.recordIds = [i \in 1..n |-> Slot(data, n + i)],
                             !.rightSibling = Int32ToInt(data.sib)],
          err |-> NoErr]

\* innerNode.toBytes: the bytes written, or none when keys and children differ in length
innerToBytes(n) ==
    IF Len(n.children) # Len(n.keys)
    THEN [written |-> FALSE, data |-> ZeroPage]
    ELSE [written |-> TRUE,
          data |-> [kind |-> 0, size |-> getSize(n), max |-> 0,
                    sib |-> PutUint32(n.rightSibling),
                    slots |-> TrimZeros(n.keys \o n.children)]]

\* innerNode.fromBytes: keys from offset 12, children from offset 12 + keyCount*8,
\* read little-endian
innerFromBytes(n, data) ==
    IF data.kind # 0
    THEN [node |-> n, err |-> "not an inner node"]
    ELSE LET keyCount == data.size
             half == keyCount \div 2
         IN  [node |-> [n EXCEPT
                          !.keys = [i \in 1..half |-> Slot(data, i)],
                          !.children = [i \in 1..half |->
                                          LittleEndianOfBigEndian(Slot(data, keyCount + i))],
                          !.rightSibling = Uint32ToInt(data.sib)],
              err |-> NoErr]

getPageType(m, f) == m.frames[f].Data.kind

WriteFrame(m, f, data) == [m EXCEPT !.frames[f].Data = data]

createInnerNodeFromPage(m, f) ==
    innerFromBytes(InnerObject(<<>>, <<>>, 0, f), m.frames[f].Data).node

createLeafNodeFromPage(m, f) ==
    leafFromBytes(LeafObject(<<>>, <<>>, InvalidPageId, f), m.frames[f].Data).node

\* insertSort without the search for the key's place
insertAtEnd(l, k, rid) ==
    [l EXCEPT !.keys = Append(l.keys, k), !.recordIds = Append(l.recordIds, rid)]

insertSort(l, k, rid) ==
    LET b == BinarySearch(l.keys, k) IN
    IF b.found THEN l
    ELSE [l EXCEPT !.keys = SliceInsert(l.keys, b.pos, k),
                   !.recordIds = SliceInsert(l.recordIds, b.pos, rid)]

sInsert(n, k, pageId) ==
    LET b == BinarySearch(n.keys, k) IN
    IF b.found THEN n
    ELSE [n EXCEPT !.keys = SliceInsert(n.keys, b.pos, k),
                   !.children = SliceInsert(n.children, b.pos, pageId)]

leafGet(l, key) ==
    LET b == BinarySearch(l.keys, key) IN
    IF ~b.found THEN [v |-> -1, found |-> FALSE]
    ELSE [v |-> l.recordIds[b.pos + 1], found |-> TRUE]

----------------------------------------------------------------------------
(* bPlusTree, index.  h is the heap a call works on: h.m the BufferPoolManager, *)
(* h.t the tree (Root object, rootPageId and the seen stack of the metadata).   *)
(* Every pointer pushed on seen points to the Root object (search appends its   *)
(* receiver, Insert appends the new root), so an entry is "Root" or "nil".      *)

\* the descent gives up after this many levels: a longer descent is a cycle of pages
MaxDescent == 8

Heap(m, t) == [m |-> m, t |-> t]

updateRoot(h, newRoot) ==
    [h EXCEPT !.t.Root = newRoot, !.t.rootPageId = h.m.frames[newRoot.frame].PageId]

getAncestor(t) == IF Len(t.seen) > 0 THEN t.seen[Len(t.seen)] ELSE "nil"

\* m.seen = m.seen[:n] keeps all n entries
removeAncestor(t) ==
    LET n == Len(t.seen) IN
    IF n > 0
    THEN [t |-> [t EXCEPT !.seen = SliceTo(t.seen, n)], val |-> t.seen[n]]
    ELSE [t |-> t, val |-> "nil"]

\* the frame of node n after n.toBytes(): innerNode.toBytes writes nothing when
\* keys and children differ in length
innerWrite(m, n) ==
    LET Put(b) == IF b.written THEN WriteFrame(m, n.frame, b.data) ELSE m IN
    Put(innerToBytes(n))

leafWrite(m, l) == WriteFrame(m, l.frame, leafToBytes(l))

\* innerNode.insert on the node recv points to
RECURSIVE innerInsert(_, _, _, _, _, _)
innerInsert(h, recv, key, pageId, c, ts) ==
    LET \* newNode.toBytes(); n.toBytes(), after the parent's insert has returned
        Persisted(r, newNode) ==
            IF r.panic THEN r
            ELSE [h |-> [r.h EXCEPT !.m = innerWrite(innerWrite(r.h.m, newNode), r.h.t.Root)],
                  ret |-> TRUE, panic |-> FALSE]
        Parent(m, par, n2, newNode, splitKey) ==
            Persisted(innerInsert(Heap(m, [par.t EXCEPT !.Root = n2]), par.val, splitKey,
                                  m.frames[newNode.frame].PageId, c, ts),
                      newNode)
        Redistributed(g, m, n1, mid) ==
            IF mid + 1 > Len(n1.keys) \/ mid + 1 > Len(n1.children)
            THEN [h |-> [h EXCEPT !.m = m, !.t.Root = n1], ret |-> FALSE, panic |-> TRUE]
            ELSE Parent(m, removeAncestor(h.t),
                        [n1 EXCEPT !.keys = SliceTo(n1.keys, mid),
                                   !.children = SliceTo(n1.children, mid),
                                   !.rightSibling = m.frames[g.f].PageId],
                        InnerObject(SliceFrom(n1.keys, mid + 1),
                                    SliceFrom(n1.children, mid + 1),
                                    NonExistentSiblingLink, g.f),
                        n1.keys[mid + 1])
        Inserted(g, m, n1) == Redistributed(g, m, n1, Len(n1.keys) \div 2)
        \* newNode := newInnerNode(...): nil when no page can be had, and
        \* newNode.frame = newPageFrame then dereferences nil
        NewNode(g, g2) ==
            IF g2.err # NoErr
            THEN [h |-> [h EXCEPT !.m = g2.m], ret |-> FALSE, panic |-> TRUE]
            ELSE Inserted(g, g2.m, sInsert(h.t.Root, key, pageId))
        NewPageFrame(g) ==
            IF g.err # NoErr
            THEN [h |-> [h EXCEPT !.m = g.m], ret |-> FALSE, panic |-> FALSE]
            ELSE NewNode(g, GetNewPageFrame(g.m, c, c, ts))
        NotFull(n1) ==
            [h |-> [h EXCEPT !.t.Root = n1, !.m = innerWrite(h.m, n1)],
             ret |-> TRUE, panic |-> FALSE]
    IN  IF recv = "nil"
        THEN [h |-> h, ret |-> FALSE, panic |-> FALSE]
        ELSE IF getMaxSize(h.t.Root) - getSize(h.t.Root) >= 1
             THEN NotFull(sInsert(h.t.Root, key, pageId))
             ELSE NewPageFrame(GetNewPageFrame(h.m, c, c, ts))

\* leafNode.insert on the leaf object l; the object after the call is returned in l
leafInsert(h, l, k, rid, c, ts) ==
    LET Parent(m, par, l2, newL) ==
            IF Len(newL.keys) = 0
            THEN [h |-> Heap(m, par.t), l |-> l2, ret |-> FALSE, panic |-> TRUE]
            ELSE LET Done(r) == [h |-> r.h, l |-> l2, ret |-> TRUE, panic |-> r.panic] IN
                 Done(innerInsert(Heap(m, par.t), par.val, newL.keys[1],
                                  m.frames[newL.frame].PageId, c, ts))
        \* l.toBytes() and the dirty flag of l's frame, after those of newL
        Halved(m, l2, newL) ==
            Parent([leafWrite(m, l2) EXCEPT !.frames[l2.frame].IsDirty = TRUE],
                   removeAncestor(h.t), l2, newL)
        \* newL.toBytes() and the dirty flag of newL's frame
        Split(m, l1, mid, newL) ==
            Halved([leafWrite(m, newL) EXCEPT !.frames[newL.frame].IsDirty = TRUE],
                   [l1 EXCEPT !.keys = SliceTo(l1.keys, mid),
                              !.recordIds = SliceTo(l1.recordIds, mid),
                              !.rightSibling = m.frames[newL.frame].PageId],
                   newL)
        Sorted(g, l1, mid) ==
            Split(g.m, l1, mid,
                  LeafObject(SliceFrom(l1.keys, mid), SliceFrom(l1.recordIds, mid),
                             InvalidPageId, g.f))
        NewLeaf(g) ==
            IF g.err # NoErr
            THEN [h |-> [h EXCEPT !.m = g.m], l |-> l, ret |-> FALSE, panic |-> FALSE]
            ELSE LET Mid(l1) == Sorted(g, l1, Len(l1.keys) \div 2) IN
                 Mid(insertSort(l, k, rid))
        HasRoom(l1) ==
            [h |-> [h EXCEPT !.m = leafWrite(h.m, l1)], l |-> l1, ret |-> TRUE,
             panic |-> FALSE]
    IN  IF getMaxSize(l) - getSize(l) >= 1
        THEN HasRoom(insertSort(l, k, rid))
        ELSE NewLeaf(GetNewPageFrame(h.m, c, c, ts))

\* the loop of innerNode.search
RECURSIVE searchLoop(_, _, _, _, _, _, _)
searchLoop(h, currNode, currPageFrame, k, c, ts, fuel) ==
    LET Loaded(h1, g) ==
            IF g.err # NoErr
            THEN \* getPageType(nil)
                 [h |-> [h1 EXCEPT !.m = g.m], leaf |-> currNode, panic |-> TRUE,
                  hang |-> FALSE]
            ELSE searchLoop([h1 EXCEPT !.m = g.m],
                            IF getPageType(g.m, g.f) = 0
                            THEN createInnerNodeFromPage(g.m, g.f)
                            ELSE currNode,
                            g.f, k, c, ts, fuel - 1)
        Next(h1, idx) ==
            IF idx < 0 \/ idx >= Len(currNode.children)
            THEN [h |-> h1, leaf |-> currNode, panic |-> TRUE, hang |-> FALSE]
            ELSE Loaded(h1, GetPage(h1.m, currNode.children[idx + 1], c, ts))
        Found(h1, pos) ==
            Next(h1, IF pos = 0 \/ (pos < Len(currNode.keys) /\ k >= currNode.keys[pos + 1])
                     THEN pos ELSE pos - 1)
    IN  IF getPageType(h.m, currPageFrame) # 0
        THEN [h |-> h, leaf |-> createLeafNodeFromPage(h.m, currPageFrame),
              panic |-> FALSE, hang |-> FALSE]
        ELSE IF fuel = 0
             THEN [h |-> h, leaf |-> currNode, panic |-> FALSE, hang |-> TRUE]
             ELSE Found([h EXCEPT !.t.seen = Append(h.t.seen, "Root")],
                        BinarySearch(currNode.keys, k).pos)

search(h, k, c, ts) == searchLoop(h, h.t.Root, h.t.Root.frame, k, c, ts, MaxDescent)

\* innerNode.get on the Root object: fromBytes loads the child's bytes into the receiver
RECURSIVE innerGet(_, _, _, _, _)
innerGet(h, key, c, ts, fuel) ==
    LET Miss(m) == [h |-> [h EXCEPT !.m = m], v |-> -1, found |-> FALSE,
                    panic |-> FALSE, hang |-> FALSE]
        Decoded(g, fb) ==
            IF fb.err # NoErr
            THEN Miss(g.m)
            ELSE innerGet([h EXCEPT !.m = g.m, !.t.Root = fb.node], key, c, ts, fuel - 1)
        Loaded(g) ==
            IF g.err # NoErr
            THEN Miss(g.m)
            ELSE Decoded(g, innerFromBytes(h.t.Root, g.m.frames[g.f].Data))
        Child(pos) ==
            IF pos - 1 < 0 \/ pos - 1 >= Len(h.t.Root.children)
            THEN [h |-> h, v |-> -1, found |-> FALSE, panic |-> TRUE, hang |-> FALSE]
            ELSE Loaded(GetPage(h.m, h.t.Root.children[pos], c, ts))
    IN  IF fuel = 0
        THEN [h |-> h, v |-> -1, found |-> FALSE, panic |-> FALSE, hang |-> TRUE]
        ELSE Child(BinarySearch(h.t.Root.keys, key).pos)

Get(h, k, c, ts) ==
    IF h.t.Root.leaf
    THEN LET Result(r) ==
                 [h |-> h, v |-> r.v, found |-> r.found, panic |-> FALSE, hang |-> FALSE]
         IN  Result(leafGet(h.t.Root, k))
    ELSE innerGet(h, k, c, ts, MaxDescent)

Insert(h, k, v, c, ts) ==
    LET root == h.t.Root
        \* the result of l.insert on the old root leaf; the leaf object is dropped
        OldRoot(r) == [h |-> r.h, ret |-> r.ret, panic |-> r.panic, hang |-> FALSE]
        \* the result of t.Root.insert on the root leaf
        RootLeaf(r) == [h |-> [r.h EXCEPT !.t.Root = r.l], ret |-> r.ret,
                        panic |-> r.panic, hang |-> FALSE]
        NewRoot(g) ==
            IF g.err # NoErr
            THEN \* newInnerNode returned nil: newRoot.children dereferences it
                 [h |-> [h EXCEPT !.m = g.m, !.t.seen = Append(h.t.seen, "nil")],
                  ret |-> FALSE, panic |-> TRUE, hang |-> FALSE]
            ELSE OldRoot(leafInsert(
                     updateRoot([h EXCEPT !.m = g.m, !.t.seen = Append(h.t.seen, "Root")],
                                InnerObject(<<MinInt>>, <<g.m.frames[root.frame].PageId>>,
                                            InvalidPageId, g.f)),
                     root, k, v, c, ts))
        Searched(sr) ==
            IF sr.panic \/ sr.hang
            THEN [h |-> sr.h, ret |-> FALSE, panic |-> sr.panic, hang |-> sr.hang]
            ELSE OldRoot(leafInsert(sr.h, sr.leaf, k, v, c, ts))
    IN  IF getMaxSize(root) <= getSize(root) /\ root.leaf
        THEN NewRoot(GetNewPageFrame(h.m, c, c, ts))
        ELSE IF root.leaf
             THEN RootLeaf(leafInsert(h, root, k, v, c, ts))
             ELSE Searched(search(h, k, c, ts))

NewBPlusTreeMetadata == [rootPageId |-> InvalidPageId, seen |-> <<>>]

\* NewBPlusTree with no root page yet: the root is a new leaf
NewBPlusTree(m, c, ts) ==
    LET Rooted(g) ==
            updateRoot(Heap(g.m, [Root |-> LeafObject(<<>>, <<>>, InvalidPageId, g.f),
                                  rootPageId |-> NewBPlusTreeMetadata.rootPageId,
                                  seen |-> NewBPlusTreeMetadata.seen]),
                       LeafObject(<<>>, <<>>, InvalidPageId, g.f))
    IN  Rooted(GetNewPageFrame(m, c, c, ts))

----------------------------------------------------------------------------
(* The calls, as actions *)

Op(op, arg, arg2, res, ok, victims) ==
    [op |-> op, arg |-> arg, arg2 |-> arg2, res |-> res, ok |-> ok, victims |-> victims]

NoTree == [Root |-> LeafObject(<<>>, <<>>, InvalidPageId, NilFrame),
           rootPageId |-> InvalidPageId, seen |-> <<>>]

NoLedger == [k \in {} |-> 0]

(* The replacer on its own, as its unit test drives it *)

ReplacerFrames == 0..MaxFrameId

\* number of timestamps held in the histories of the frames in S
RECURSIVE HistoryTotal(_, _)
HistoryTotal(lruK, S) ==
    IF S = {} THEN 0
    ELSE LET f == CHOOSE x \in S : TRUE IN
         Len(lruK.metadataStore[f].history) + HistoryTotal(lruK, S \ {f})

HistoryHeld(lruK) == HistoryTotal(lruK, DOMAIN lruK.metadataStore)

\* recordAccess reads the clock, which shows t
RecordAccess(f, t) ==
    /\ HistoryHeld(bpm.lrukreplacer) < MaxHistory
    /\ bpm' = [bpm EXCEPT !.lrukreplacer = recordAccess(@, f, t)]
    /\ now' = t
    /\ lastOp' = Op("recordAccess", 0, 0, 0, TRUE, {})
    /\ UNCHANGED <<tree, crashed, ledger>>

SetEvictable(f, b) ==
    /\ bpm' = [bpm EXCEPT !.lrukreplacer = setEvictable(@, f, b)]
    /\ lastOp' = Op("setEvictable", 0, 0, 0, TRUE, {})
    /\ UNCHANGED <<tree, now, crashed, ledger>>

\* position of frame f in the lru list, counted from the front; 0 when it is not there
LruIndex(lruK, f) ==
    IF \E i \in 1..Len(lruK.lru) : lruK.lru[i] = f
    THEN CHOOSE i \in 1..Len(lruK.lru) : lruK.lru[i] = f
    ELSE 0

\* lastOp records the place the returned frame had in the lru list when evict was called
Evict ==
    \E order \in MapOrders(DOMAIN bpm.lrukreplacer.metadataStore) :
        LET e == LruKEvict(bpm.lrukreplacer, order) IN
        /\ bpm' = [bpm EXCEPT !.lrukreplacer = e.lruK]
        /\ lastOp' = Op("evict", LruIndex(bpm.lrukreplacer, e.frameId), 0,
                        e.frameId, e.err = NoErr, {})
        /\ UNCHANGED <<tree, now, crashed, ledger>>

\* arg2 of lastOp is the place the frame had in the lru list when remove was
\* called, 0 for a frame the replacer did not track
Remove(f) ==
    LET r == LruKRemove(bpm.lrukreplacer, f) IN
    /\ bpm' = [bpm EXCEPT !.lrukreplacer = r.lruK]
    /\ lastOp' = Op("remove", f, LruIndex(bpm.lrukreplacer, f), 0, r.err = NoErr, {})
    /\ UNCHANGED <<tree, now, crashed, ledger>>

ReplacerInit ==
    /\ bpm = NewBufferPoolManager(NewDiskManager, PoolSize)
    /\ tree = NoTree
    /\ now = 0
    /\ crashed = FALSE
    /\ lastOp = Op("new", 0, 0, 0, TRUE, {})
    /\ ledger = NoLedger

ReplacerNext ==
    \/ \E f \in ReplacerFrames, t \in now..MaxTime : RecordAccess(f, t)
    \/ \E f \in ReplacerFrames, b \in BOOLEAN : SetEvictable(f, b)
    \/ Evict
    \/ \E f \in ReplacerFrames : Remove(f)

ReplacerSpec == ReplacerInit /\ [][ReplacerNext]_vars

\* The replacer with a clock that advances between any two accesses

\* recordAccess reads a clock that has moved on since the access before
TickingRecordAccess(f) ==
    /\ now < MaxClock
    /\ RecordAccess(f, now + 1)

TickingNext ==
    \/ \E f \in ReplacerFrames : TickingRecordAccess(f)
    \/ \E f \in ReplacerFrames, b \in BOOLEAN : SetEvictable(f, b)
    \/ Evict

TickingSpec == ReplacerInit /\ [][TickingNext]_vars


----------------------------------------------------------------------------
(* The buffer pool over a disk manager, driven through its exported methods *)

PoolFrames == 0..(PoolSize - 1)
PageIds == 0..MaxPageId

\* the run-time choices of a call on the pool
PoolChoices ==
    {Choices(o, w, r) : o \in MapOrders(PoolFrames), w \in WriteOutcomes, r \in ReadOutcomes}

\* the choices of a call that ranges over no map and does no I/O
NoChoices == Choices([i \in 1..PoolSize |-> i - 1], "ok", "ok")

\* the choices that bear on getPageFrame(pageId): none when the page is resident,
\* the outcome of the read when a frame is free, all of them when a victim is evicted
ChoicesOfGetPage(m, pageId) ==
    IF pageId \in DOMAIN m.pageToFrame THEN {NoChoices}
    ELSE IF Len(m.freeFrames) > 0
         THEN {Choices(NoChoices.order, "ok", r) : r \in ReadOutcomes}
         ELSE PoolChoices

\* the choices that bear on newPage: none when a frame is free, else the order in
\* which the replacer ranges over its map and the outcome of the victim's write
ChoicesOfNewPage(m) ==
    IF Len(m.freeFrames) > 0 THEN {NoChoices}
    ELSE {Choices(o, w, "ok") : o \in MapOrders(PoolFrames), w \in WriteOutcomes}

\* bytes a caller puts into a frame it holds: a leaf with the one entry (1, 1)
SamplePage == leafToBytes(LeafObject(<<1>>, <<1>>, InvalidPageId, NilFrame))

\* the calls made keep the model within its bounds
WithinPoolBounds(m) ==
    /\ \A f \in DOMAIN m.frames : m.frames[f].pinCount <= MaxPinCount
    /\ \A f \in DOMAIN m.lrukreplacer.metadataStore :
          Len(m.lrukreplacer.metadataStore[f].history) <= MaxPoolHistory
    /\ m.nextPageId <= MaxPageId + 1
    /\ m.diskManager.writeCount <= MaxWrites

\* the choices of newPage paired with those of the GetPage that follows it
ChoicesOfGetNewPageFrame(m) ==
    LET Bears(n, c2) == c2 \in ChoicesOfGetPage(n.m, n.pageId) IN
    {cc \in ChoicesOfNewPage(m) \X PoolChoices : Bears(newPage(m, cc[1]), cc[2])}

\* the pool's calls read the clock at `now`; a call has one successor for each
\* result its run-time choices can give.  lastOp names the calls that hand out a
\* frame (res is the frame returned) and the flushes; the others are recorded
\* alike, as "call"
PoolGetNewPageFrame ==
    /\ bpm.nextPageId <= MaxPageId
    /\ \E r \in {GetNewPageFrame(bpm, cc[1], cc[2], now) : cc \in ChoicesOfGetNewPageFrame(bpm)} :
        /\ WithinPoolBounds(r.m)
        /\ bpm' = r.m
        /\ lastOp' = Op("GetNewPageFrame", 0, 0, r.f, r.err = NoErr, r.victims)
        /\ UNCHANGED <<tree, now, crashed, ledger>>

\* ReadPage is called, and fails, when the page is not resident, a frame is had
\* for it and the read's outcome is an error
ReadFailed(m, p, c, g) ==
    IF p \notin DOMAIN m.pageToFrame /\ g.err = NoErr /\ c.read # "ok" THEN 1 ELSE 0

\* arg of lastOp is 1 when the page was not resident, arg2 is 1 when the call's
\* ReadPage failed
PoolGetPage(p) ==
    LET Result(c, g) == [g |-> g, readFailed |-> ReadFailed(bpm, p, c, g)] IN
    \E r \in {Result(c, GetPage(bpm, p, c, now)) : c \in ChoicesOfGetPage(bpm, p)} :
        /\ WithinPoolBounds(r.g.m)
        /\ bpm' = r.g.m
        /\ lastOp' = Op("GetPage", IF p \in DOMAIN bpm.pageToFrame THEN 0 ELSE 1,
                        r.readFailed, r.g.f, r.g.err = NoErr, r.g.victims)
        /\ UNCHANGED <<tree, now, crashed, ledger>>

PoolPin(f) ==
    /\ WithinPoolBounds(Pin(bpm, f, now))
    /\ bpm' = Pin(bpm, f, now)
    /\ lastOp' = Op("call", 0, 0, 0, TRUE, {})
    /\ UNCHANGED <<tree, now, crashed, ledger>>

PoolUnpin(f) ==
    /\ bpm' = Unpin(bpm, f)
    /\ lastOp' = Op("call", 0, 0, 0, TRUE, {})
    /\ UNCHANGED <<tree, now, crashed, ledger>>

\* the pages whose flush calls WritePage
DirtyPages(m) == {p \in DOMAIN m.pageToFrame : m.frames[m.pageToFrame[p]].IsDirty}

PoolFlushPage(p) ==
    \E w \in (IF p \in DirtyPages(bpm) THEN WriteOutcomes ELSE {"ok"}) :
        LET r == FlushPage(bpm, p, w) IN
        /\ WithinPoolBounds(r.m)
        /\ bpm' = r.m
        /\ lastOp' = Op("FlushPage", p, 0, 0, r.ok, {})
        /\ UNCHANGED <<tree, now, crashed, ledger>>

\* the outcomes of the writes of one FlushAllPages: after the first write that
\* fails no further page is written, so at most one page stands for a failure
FlushOutcomes(m) ==
    {[p \in DOMAIN m.pageToFrame |-> "ok"]} \cup
    {[p \in DOMAIN m.pageToFrame |-> IF p = q THEN w ELSE "ok"] :
        q \in DirtyPages(m), w \in WriteOutcomes \ {"ok"}}

\* the page whose write is to fail under the outcomes `writes`, or InvalidPageId
FailingPage(writes) ==
    IF \E p \in DOMAIN writes : writes[p] # "ok"
    THEN CHOOSE p \in DOMAIN writes : writes[p] # "ok"
    ELSE InvalidPageId

\* arg of lastOp is the page whose write failed, or InvalidPageId
PoolFlushAllPages ==
    \E r \in {[fl |-> FlushAllPages(bpm, ow[1], ow[2]), failed |-> FailingPage(ow[2])] :
                 ow \in MapOrders(DOMAIN bpm.pageToFrame) \X FlushOutcomes(bpm)} :
        /\ WithinPoolBounds(r.fl.m)
        /\ bpm' = r.fl.m
        /\ lastOp' = Op("FlushAllPages", r.failed, 0, 0, r.fl.ok, {})
        /\ UNCHANGED <<tree, now, crashed, ledger>>

PoolDeletePage(p) ==
    LET r == DeletePage(bpm, p) IN
    /\ bpm' = r.m
    /\ lastOp' = Op("call", 0, 0, 0, TRUE, {})
    /\ UNCHANGED <<tree, now, crashed, ledger>>

\* the holder of a pinned frame writes a node into it and marks it dirty,
\* as leafNode.insert does with the frames of the two halves of a split
ModifyFrame(f) ==
    /\ bpm.frames[f].pinCount > 0
    /\ bpm' = [WriteFrame(bpm, f, SamplePage) EXCEPT !.frames[f].IsDirty = TRUE]
    /\ lastOp' = Op("call", 0, 0, 0, TRUE, {})
    /\ UNCHANGED <<tree, now, crashed, ledger>>

PoolInit ==
    /\ bpm = NewBufferPoolManager(NewDiskManager, PoolSize)
    /\ tree = NoTree
    /\ now = 0
    /\ crashed = FALSE
    /\ lastOp = Op("new", 0, 0, 0, TRUE, {})
    /\ ledger = NoLedger

PoolNext ==
    \/ PoolGetNewPageFrame
    \/ \E p \in PageIds : PoolGetPage(p)
    \/ \E f \in PoolFrames : PoolPin(f)
    \/ \E f \in PoolFrames : PoolUnpin(f)
    \/ \E p \in PageIds : PoolFlushPage(p)
    \/ PoolFlushAllPages
    \/ \E p \in PageIds : PoolDeletePage(p)
    \/ \E f \in PoolFrames : ModifyFrame(f)

PoolSpec == PoolInit /\ [][PoolNext]_vars

----------------------------------------------------------------------------
(* The buffer pool driven until it is full: pages are allocated, pinned again, *)
(* written to and unpinned, over more calls than in PoolSpec                   *)

WithinFullPoolBounds(m) ==
    /\ \A f \in DOMAIN m.frames : m.frames[f].pinCount <= MaxPinCount
    /\ \A f \in DOMAIN m.lrukreplacer.metadataStore :
          Len(m.lrukreplacer.metadataStore[f].history) <= MaxFullPoolHistory
    /\ m.diskManager.writeCount <= MaxWrites

FullPoolGetNewPageFrame ==
    /\ bpm.nextPageId <= MaxFullPoolPageId
    /\ \E r \in {GetNewPageFrame(bpm, cc[1], cc[2], now) : cc \in ChoicesOfGetNewPageFrame(bpm)} :
        /\ WithinFullPoolBounds(r.m)
        /\ bpm' = r.m
        /\ lastOp' = Op("GetNewPageFrame", 0, 0, r.f, r.err = NoErr, r.victims)
        /\ UNCHANGED <<tree, now, crashed, ledger>>

\* GetPage of a page that is resident
FullPoolGetPage(p) ==
    /\ p \in DOMAIN bpm.pageToFrame
    /\ \E r \in {GetPage(bpm, p, NoChoices, now)} :
        /\ WithinFullPoolBounds(r.m)
        /\ bpm' = r.m
        /\ lastOp' = Op("GetPage", 0, 0, r.f, r.err = NoErr, r.victims)
        /\ UNCHANGED <<tree, now, crashed, ledger>>

FullPoolUnpin(f) ==
    /\ bpm.frames[f].pinCount > 0
    /\ bpm' = Unpin(bpm, f)
    /\ lastOp' = Op("call", 0, 0, 0, TRUE, {})
    /\ UNCHANGED <<tree, now, crashed, ledger>>

FullPoolNext ==
    \/ FullPoolGetNewPageFrame
    \/ \E p \in 0..MaxFullPoolPageId : FullPoolGetPage(p)
    \/ \E f \in PoolFrames : FullPoolUnpin(f)
    \/ \E f \in PoolFrames : ModifyFrame(f)

FullPoolSpec == PoolInit /\ [][FullPoolNext]_vars

\* The pool driven by callers that take new pages, pin and release frames and
\* delete pages

\* arg2 of lastOp is the pin-count the frame had when Unpin was called
ReleaseUnpin(f) ==
    /\ bpm' = Unpin(bpm, f)
    /\ lastOp' = Op("Unpin", f, bpm.frames[f].pinCount, 0, TRUE, {})
    /\ UNCHANGED <<tree, now, crashed, ledger>>

ReleaseDeletePage(p) ==
    \E r \in {DeletePage(bpm, p)} :
        /\ bpm' = r.m
        /\ lastOp' = Op("DeletePage", p, 0, 0, r.ok, {})
        /\ UNCHANGED <<tree, now, crashed, ledger>>

ReleaseNext ==
    \/ PoolGetNewPageFrame
    \/ \E f \in PoolFrames : PoolPin(f)
    \/ \E f \in PoolFrames : ReleaseUnpin(f)
    \/ \E p \in PageIds : ReleaseDeletePage(p)

ReleaseSpec == PoolInit /\ [][ReleaseNext]_vars

----------------------------------------------------------------------------
(* The B+Tree over a pool of TreePoolSize frames, driven through Insert and Get *)

Keys == 1..MaxKey
Values == {7, 8}

\* the tree never unpins a frame, so the replacer holds no evictable frame, ranges
\* over nothing and no page is written or read back: a call has one outcome
TreeChoices == Choices([i \in 1..TreePoolSize |-> i - 1], "ok", "ok")

WithinTreeBounds(m) ==
    /\ \A f \in DOMAIN m.frames : m.frames[f].pinCount <= TreeMaxPinCount
    /\ m.diskManager.writeCount <= TreeMaxWrites

\* the ledger keeps, for each key, the value and the result of its first Insert
Recorded(led, k, v, ok) ==
    IF k \in DOMAIN led THEN led
    ELSE [x \in DOMAIN led \cup {k} |-> IF x = k THEN [v |-> v, ok |-> ok] ELSE led[x]]

\* a call that panics or does not return ends the program
TreeInsert(k, v) ==
    /\ ~crashed
    /\ \E r \in {Insert(Heap(bpm, tree), k, v, TreeChoices, now)} :
        /\ WithinTreeBounds(r.h.m)
        /\ bpm' = r.h.m
        /\ tree' = r.h.t
        /\ crashed' = (r.panic \/ r.hang)
        /\ lastOp' = Op("Insert", k, v, 0, r.ret /\ ~r.panic /\ ~r.hang, {})
        /\ ledger' = IF r.panic \/ r.hang THEN ledger ELSE Recorded(ledger, k, v, r.ret)
        /\ UNCHANGED now

TreeGet(k) ==
    /\ ~crashed
    /\ \E r \in {Get(Heap(bpm, tree), k, TreeChoices, now)} :
        /\ WithinTreeBounds(r.h.m)
        /\ bpm' = r.h.m
        /\ tree' = r.h.t
        /\ crashed' = (r.panic \/ r.hang)
        /\ lastOp' = Op("Get", k, 0, r.v, r.found /\ ~r.panic /\ ~r.hang, {})
        /\ UNCHANGED <<now, ledger>>

\* the caller flushes the pool, as before closing the file
TreeFlushAllPages ==
    /\ ~crashed
    /\ \E r \in {[fl |-> FlushAllPages(bpm, ow[1], ow[2]), failed |-> FailingPage(ow[2])] :
                    ow \in MapOrders(DOMAIN bpm.pageToFrame) \X FlushOutcomes(bpm)} :
        /\ WithinTreeBounds(r.fl.m)
        /\ bpm' = r.fl.m
        /\ lastOp' = Op("FlushAllPages", r.failed, 0, 0, r.fl.ok, {})
        /\ UNCHANGED <<tree, now, crashed, ledger>>

Init ==
    /\ \E h \in {NewBPlusTree(NewBufferPoolManager(NewDiskManager, TreePoolSize),
                              TreeChoices, 0)} :
        /\ bpm = h.m
        /\ tree = h.t
    /\ now = 0
    /\ crashed = FALSE
    /\ lastOp = Op("new", 0, 0, 0, TRUE, {})
    /\ ledger = NoLedger

Next ==
    \/ \E k \in Keys, v \in Values : TreeInsert(k, v)
    \/ \E k \in Keys : TreeGet(k)

Spec == Init /\ [][Next]_vars

\* main builds the pool with a size of its choosing and the tree on top of it
SizedInit ==
    /\ \E size \in 1..TreePoolSize :
        \E h \in {NewBPlusTree(NewBufferPoolManager(NewDiskManager, size),
                                TreeChoices, 0)} :
            /\ bpm = h.m
            /\ tree = h.t
    /\ now = 0
    /\ crashed = FALSE
    /\ lastOp = Op("new", 0, 0, 0, TRUE, {})
    /\ ledger = NoLedger

SizedSpec == SizedInit /\ [][Next]_vars

\* the tree with a caller that also flushes the pool; one record id is enough
\* to tell the bytes of a page from those the file holds
DurableNext ==
    \/ \E k \in Keys : TreeInsert(k, 7)
    \/ \E k \in Keys : TreeGet(k)
    \/ TreeFlushAllPages

DurableSpec == Init /\ [][DurableNext]_vars

\* The tree grown by main's loop of Inserts with ascending keys, then handed
\* Inserts of any key

GrowKeys == 1..(2 * MaxLoad + 1)

GrowChoices == Choices([i \in 1..GrowPoolSize |-> i - 1], "ok", "ok")

\* main's loop run n times: the heap, the ledger of the Inserts made and whether
\* one of them did not return
RECURSIVE Loaded(_)
Loaded(n) ==
    IF n = 0
    THEN [h |-> NewBPlusTree(NewBufferPoolManager(NewDiskManager, GrowPoolSize),
                             GrowChoices, 0),
          ledger |-> NoLedger, crashed |-> FALSE]
    ELSE LET Done(before, r) ==
                 [h |-> r.h,
                  ledger |-> IF r.panic \/ r.hang THEN before.ledger
                             ELSE Recorded(before.ledger, 2 * n, 7, r.ret),
                  crashed |-> r.panic \/ r.hang]
             Step(before) ==
                 IF before.crashed THEN before
                 ELSE Done(before, Insert(before.h, 2 * n, 7, GrowChoices, 0))
         IN  Step(Loaded(n - 1))

GrowInit ==
    /\ \E n \in 0..MaxLoad :
        \E l \in {Loaded(n)} :
            /\ bpm = l.h.m
            /\ tree = l.h.t
            /\ ledger = l.ledger
            /\ crashed = l.crashed
            /\ lastOp = Op("load", n, 0, 0, TRUE, {})
    /\ now = 0

\* res of lastOp counts the Insert calls made since the loop
GrowInsert(k) ==
    /\ ~crashed
    /\ lastOp.res < MaxGrowInserts
    /\ \E r \in {Insert(Heap(bpm, tree), k, 7, GrowChoices, now)} :
        /\ bpm' = r.h.m
        /\ tree' = r.h.t
        /\ crashed' = (r.panic \/ r.hang)
        /\ lastOp' = Op("Insert", k, 7, lastOp.res + 1, r.ret /\ ~r.panic /\ ~r.hang, {})
        /\ ledger' = IF r.panic \/ r.hang THEN ledger ELSE Recorded(ledger, k, 7, r.ret)
        /\ UNCHANGED now

GrowNext == \E k \in GrowKeys : GrowInsert(k)

GrowSpec == GrowInit /\ [][GrowNext]_vars

\* The grown tree handed Inserts of any key and then one Get

LookupInit ==
    /\ GrowInit
    /\ lastOp.arg = MaxLoad

LookupInsert(k) ==
    /\ lastOp.op # "Get"
    /\ lastOp.res < MaxLookupInserts
    /\ GrowInsert(k)

\* res of lastOp is the value Get returned
LookupGet(k) ==
    /\ ~crashed
    /\ lastOp.op # "Get"
    /\ \E r \in {Get(Heap(bpm, tree), k, GrowChoices, now)} :
        /\ bpm' = r.h.m
        /\ tree' = r.h.t
        /\ crashed' = (r.panic \/ r.hang)
        /\ lastOp' = Op("Get", k, 0, r.v, r.found /\ ~r.panic /\ ~r.hang, {})
        /\ UNCHANGED <<now, ledger>>

LookupNext ==
    \/ \E k \in GrowKeys : LookupInsert(k)
    \/ \E k \in GrowKeys : LookupGet(k)

LookupSpec == LookupInit /\ [][LookupNext]_vars

----------------------------------------------------------------------------
(* A node written to its page with toBytes and read back with fromBytes *)

CodecKeys == 0..MaxCodecKey
CodecRecordIds == {0, 7}
CodecPageIds == 0..MaxCodecPageId
CodecSiblings == {InvalidPageId} \cup CodecPageIds

\* the elements of S in ascending order
RECURSIVE Ascending(_)
Ascending(S) ==
    IF S = {} THEN <<>>
    ELSE LET lo == CHOOSE x \in S : \A y \in S : x <= y
         IN  <<lo>> \o Ascending(S \ {lo})

\* the leaves with up to NodeMaxSize / 2 ascending keys, on frame 0
CodecLeaves ==
    {LeafObject(Ascending(S), rids, sib, 0) :
        S \in {T \in SUBSET CodecKeys : 2 * Cardinality(T) <= NodeMaxSize},
        rids \in UNION {[1..n -> CodecRecordIds] : n \in 0..(NodeMaxSize \div 2)},
        sib \in CodecSiblings}

\* the inner nodes with the sentinel and up to NodeMaxSize / 2 - 1 ascending
\* keys, on frame 0
CodecInnerNodes ==
    {InnerObject(<<MinInt>> \o Ascending(S), ch, sib, 0) :
        S \in {T \in SUBSET CodecKeys : 2 * (Cardinality(T) + 1) <= NodeMaxSize},
        ch \in UNION {[1..n -> CodecPageIds] : n \in 1..(NodeMaxSize \div 2)},
        sib \in CodecSiblings}

\* ledger holds the node as it was built, the frame its bytes, tree.Root the
\* node read back
CodecInit ==
    /\ \E n \in {l \in CodecLeaves : Len(l.keys) = Len(l.recordIds)}
              \cup {i \in CodecInnerNodes : Len(i.keys) = Len(i.children)} :
          ledger = n
    /\ bpm = NewBufferPoolManager(NewDiskManager, 1)
    /\ tree = NoTree
    /\ now = 0
    /\ crashed = FALSE
    /\ lastOp = Op("node", 0, 0, 0, TRUE, {})

CodecLeafToBytes ==
    /\ lastOp.op = "node"
    /\ ledger.leaf
    /\ bpm' = leafWrite(bpm, ledger)
    /\ lastOp' = Op("leafToBytes", 0, 0, 0, TRUE, {})
    /\ UNCHANGED <<tree, now, crashed, ledger>>

CodecLeafFromBytes ==
    /\ lastOp.op = "leafToBytes"
    /\ \E r \in {leafFromBytes(LeafObject(<<>>, <<>>, InvalidPageId, 0), bpm.frames[0].Data)} :
        /\ tree' = [tree EXCEPT !.Root = r.node]
        /\ lastOp' = Op("leafFromBytes", 0, 0, 0, r.err = NoErr, {})
    /\ UNCHANGED <<bpm, now, crashed, ledger>>

CodecInnerToBytes ==
    /\ lastOp.op = "node"
    /\ ~ledger.leaf
    /\ bpm' = innerWrite(bpm, ledger)
    /\ lastOp' = Op("innerToBytes", 0, 0, 0, innerToBytes(ledger).written, {})
    /\ UNCHANGED <<tree, now, crashed, ledger>>

CodecInnerFromBytes ==
    /\ lastOp.op = "innerToBytes"
    /\ \E r \in {innerFromBytes(InnerObject(<<>>, <<>>, 0, 0), bpm.frames[0].Data)} :
        /\ tree' = [tree EXCEPT !.Root = r.node]
        /\ lastOp' = Op("innerFromBytes", 0, 0, 0, r.err = NoErr, {})
    /\ UNCHANGED <<bpm, now, crashed, ledger>>

CodecNext ==
    \/ CodecLeafToBytes
    \/ CodecLeafFromBytes
    \/ CodecInnerToBytes
    \/ CodecInnerFromBytes

CodecSpec == CodecInit /\ [][CodecNext]_vars

----------------------------------------------------------------------------
(* Properties of the B+Tree *)

\* the (key, value) entries held in the leaf pages of the pool
LeafEntries(m) ==
    UNION {{<<Slot(m.frames[f].Data, i),
              Slot(m.frames[f].Data, (m.frames[f].Data.size \div 2) + i)>> :
               i \in 1..(m.frames[f].Data.size \div 2)} :
           f \in {g \in DOMAIN m.frames : m.frames[g].Data.kind = 1}}

StoredKeys(m) == {e[1] : e \in LeafEntries(m)}

\* C1: for a key k whose first Insert(k, v) returned true, a later Get(k) returns
\* (v, true), also after leaf splits have turned the root into an inner node and
\* for a key equal to a separator key.
GetReturnsFirstInsertedValue ==
    (lastOp.op = "Get" /\ lastOp.arg \in DOMAIN ledger /\ ledger[lastOp.arg].ok)
        => (lastOp.ok /\ lastOp.res = ledger[lastOp.arg].v)

\* C2: Insert(k, v2) on a tree that already contains key k returns false, both
\* when the leaf that holds k has spare room and when that leaf is full.
InsertOfStoredKeyReturnsFalse ==
    [][(lastOp'.op = "Insert" /\ lastOp'.arg \in StoredKeys(bpm)) => ~lastOp'.ok]_vars

\* C3: Insert of a key that is already present is a no-op on the index: no stored
\* value is overwritten, no node changes its keys, values or children, no page is
\* allocated, no split happens and the root page-id is unchanged.
InsertOfStoredKeyChangesNothing ==
    [][(lastOp'.op = "Insert" /\ lastOp'.arg \in StoredKeys(bpm))
         => /\ \A f \in DOMAIN bpm.frames : bpm'.frames[f].Data = bpm.frames[f].Data
            /\ bpm'.nextPageId = bpm.nextPageId
            /\ DOMAIN bpm'.pageToFrame = DOMAIN bpm.pageToFrame
            /\ tree'.rootPageId = tree.rootPageId]_vars

\* C6: after each Insert or Get the pin-count of every frame equals its value
\* before the call.
PinCountsRestoredByTreeCalls ==
    [][lastOp'.op \in {"Insert", "Get"}
         => \A f \in DOMAIN bpm.frames :
               bpm'.frames[f].pinCount = bpm.frames[f].pinCount]_vars

----------------------------------------------------------------------------
(* Properties of the buffer pool *)

\* C4: the victim the pool's eviction chooses has pin-count 0, in every state
\* reached through GetNewPageFrame, GetPage, Pin and Unpin.
EvictionVictimUnpinned ==
    \A v \in lastOp.victims : v.pinCount = 0

\* GetNewPageFrame has just succeeded by evicting a page, which is resident no more
NewPageTookVictimsFrame ==
    /\ lastOp.op = "GetNewPageFrame"
    /\ lastOp.ok
    /\ lastOp.victims # {}
    /\ \A v \in lastOp.victims :
          /\ v.PageId \notin DOMAIN bpm.pageToFrame
          /\ bpm.frames[v.frame].pinCount = 1

\* C5: the resident map pageToFrame is one-to-one, and the frame a page id maps
\* to holds that page id, after any sequence of GetNewPageFrame, GetPage of
\* resident and non-resident ids, Pin, Unpin and FlushPage.
PageTableOneToOne ==
    /\ \A p, q \in DOMAIN bpm.pageToFrame :
          p # q => bpm.pageToFrame[p] # bpm.pageToFrame[q]
    /\ \A p \in DOMAIN bpm.pageToFrame :
          bpm.frames[bpm.pageToFrame[p]].PageId = p

\* C13: whenever GetNewPageFrame or GetPage gives the frame of a dirty victim to
\* another page, WritePage has written the victim's bytes under the victim's
\* page id: the file holds them when the call returns.  lastOp'.victims are the
\* frames the call's evictions chose, as they were when chosen.
DirtyVictimWrittenBeforeReuse ==
    [][\A v \in lastOp'.victims :
          (/\ lastOp'.op \in {"GetNewPageFrame", "GetPage"}
           /\ v.IsDirty
           /\ bpm'.frames[v.frame].PageId # v.PageId)
          => /\ v.PageId \in DOMAIN bpm'.diskManager.dbFile
             /\ bpm'.diskManager.dbFile[v.PageId] = bpm.frames[v.frame].Data]_vars

\* the bytes the file holds for page p: zero bytes where nothing was written
FileBytes(d, p) == IF p \in DOMAIN d.dbFile THEN d.dbFile[p] ELSE ZeroPage

\* C15: after GetPage(p) has loaded a non-resident page p (its ReadPage not
\* failing), the frame's bytes are the bytes last written to disk for p, zero
\* bytes where p was never written, also when the frame held another page before.
LoadedPageHoldsDiskBytes ==
    [][(lastOp'.op = "GetPage" /\ lastOp'.ok /\ lastOp'.arg2 = 0)
         => \A p \in DOMAIN bpm'.pageToFrame \ DOMAIN bpm.pageToFrame :
               bpm'.frames[bpm'.pageToFrame[p]].Data = FileBytes(bpm'.diskManager, p)]_vars

\* C16: the frame a successful GetNewPageFrame returns has all-zero bytes and a
\* cleared dirty flag, is in the resident map under a page id that was not
\* resident before, and has pin-count exactly 1, whether it came from the free
\* list or from an eviction.
NewPageFrameIsFresh ==
    [][(lastOp'.op = "GetNewPageFrame" /\ lastOp'.ok)
         => /\ bpm'.frames[lastOp'.res].Data = ZeroPage
            /\ ~bpm'.frames[lastOp'.res].IsDirty
            /\ bpm'.frames[lastOp'.res].PageId \in DOMAIN bpm'.pageToFrame
            /\ bpm'.pageToFrame[bpm'.frames[lastOp'.res].PageId] = lastOp'.res
            /\ bpm'.frames[lastOp'.res].PageId \notin DOMAIN bpm.pageToFrame
            /\ bpm'.frames[lastOp'.res].pinCount = 1]_vars

\* C17: if ReadPage fails while GetPage loads a non-resident page, GetPage
\* returns an error and hands out no frame.
GetPageFailsWhenReadFails ==
    (lastOp.op = "GetPage" /\ lastOp.arg2 = 1) => (~lastOp.ok /\ lastOp.res = NilFrame)

\* C18: when no frame is free and the replacer holds no evictable frame,
\* GetNewPageFrame and GetPage of a non-resident page fail and return no frame,
\* and the resident map, the pin-counts and the bytes of the frames are unchanged.
ExhaustedPoolFailsCleanly ==
    [][(/\ \/ lastOp'.op = "GetNewPageFrame"
            \/ (lastOp'.op = "GetPage" /\ lastOp'.arg = 1)
        /\ Len(bpm.freeFrames) = 0
        /\ {f \in DOMAIN bpm.lrukreplacer.metadataStore :
               bpm.lrukreplacer.metadataStore[f].isEvictable} = {})
         => /\ ~lastOp'.ok
            /\ lastOp'.res = NilFrame
            /\ bpm'.pageToFrame = bpm.pageToFrame
            /\ \A f \in DOMAIN bpm.frames :
                  /\ bpm'.frames[f].pinCount = bpm.frames[f].pinCount
                  /\ bpm'.frames[f].Data = bpm.frames[f].Data]_vars

\* C19: FlushPage(p) of a page that is not resident returns false and changes
\* nothing; of a resident clean page it returns true and writes nothing; of a
\* resident dirty page it calls WritePage once with the frame's bytes, and either
\* returns true with the bytes in the file and the dirty flag cleared, or returns
\* false with the dirty flag still set.
FlushPageContract ==
    [][lastOp'.op = "FlushPage" =>
        LET p == lastOp'.arg IN
        IF p \notin DOMAIN bpm.pageToFrame
        THEN ~lastOp'.ok /\ bpm' = bpm
        ELSE LET f == bpm.pageToFrame[p] IN
             IF ~bpm.frames[f].IsDirty
             THEN lastOp'.ok /\ bpm' = bpm
             ELSE /\ bpm'.diskManager.writeCount = bpm.diskManager.writeCount + 1
                  /\ bpm'.frames[f].Data = bpm.frames[f].Data
                  /\ bpm'.pageToFrame = bpm.pageToFrame
                  /\ IF lastOp'.ok
                     THEN /\ ~bpm'.frames[f].IsDirty
                          /\ p \in DOMAIN bpm'.diskManager.dbFile
                          /\ bpm'.diskManager.dbFile[p] = bpm.frames[f].Data
                     ELSE bpm'.frames[f].IsDirty]_vars

\* FlushPage has just written a dirty page: the page is resident and clean, one
\* write has been counted and the file holds the frame's bytes
DirtyPageFlushed ==
    /\ lastOp.op = "FlushPage"
    /\ lastOp.ok
    /\ lastOp.arg \in DOMAIN bpm.pageToFrame
    /\ ~bpm.frames[bpm.pageToFrame[lastOp.arg]].IsDirty
    /\ bpm.diskManager.writeCount = 1
    /\ lastOp.arg \in DOMAIN bpm.diskManager.dbFile
    /\ bpm.diskManager.dbFile[lastOp.arg] = SamplePage
    /\ bpm.frames[bpm.pageToFrame[lastOp.arg]].Data = SamplePage

\* C20: after FlushAllPages every resident page other than the one whose write
\* failed is clean.
FlushAllPagesFlushesEveryPage ==
    [][lastOp'.op = "FlushAllPages" =>
        \A p \in DOMAIN bpm'.pageToFrame :
            p # lastOp'.arg => ~bpm'.frames[bpm'.pageToFrame[p]].IsDirty]_vars

\* the pages newPage has handed out that are resident
AllocatedPages(m) == {p \in DOMAIN m.pageToFrame : 0 <= p /\ p < m.nextPageId}

\* C14: after a FlushAllPages that returned true, the file holds for every resident
\* page of the tree the bytes of the page's frame.
FlushedTreeIsOnDisk ==
    (lastOp.op = "FlushAllPages" /\ lastOp.ok)
        => \A p \in AllocatedPages(bpm) :
              FileBytes(bpm.diskManager, p) = bpm.frames[bpm.pageToFrame[p]].Data

\* calls to newPage in the step from m to m2 that did not leave a new resident page
FailedAllocations(m, m2) ==
    (m2.nextPageId - m.nextPageId)
        - Cardinality({p \in DOMAIN m2.pageToFrame : p >= m.nextPageId})

\* C11: an Insert during which the pool could not allocate a page returns false
\* and leaves the root page id, the bytes of every frame and the answer of Get
\* for every key inserted before as they were.
FailedAllocationAbortsInsert ==
    [][(lastOp'.op = "Insert" /\ FailedAllocations(bpm, bpm') > 0)
         => /\ ~crashed'
            /\ ~lastOp'.ok
            /\ tree'.rootPageId = tree.rootPageId
            /\ \A f \in DOMAIN bpm.frames : bpm'.frames[f].Data = bpm.frames[f].Data
            /\ \A k \in DOMAIN ledger :
                  LET before == Get(Heap(bpm, tree), k, TreeChoices, now)
                      after == Get(Heap(bpm', tree'), k, TreeChoices, now)
                  IN  /\ ~after.panic /\ ~after.hang
                      /\ after.v = before.v
                      /\ after.found = before.found]_vars

\* C12: no Insert or Get call ends in a panic or in a descent that does not end.
EveryCallReturns == ~crashed

\* C21: DeletePage(p) of a resident page whose frame is unpinned takes p out of
\* pageToFrame, puts the frame on the free list and drops the frame from the
\* replacer.
DeletePageFreesFrame ==
    [][(/\ lastOp'.op = "DeletePage"
        /\ lastOp'.arg \in DOMAIN bpm.pageToFrame
        /\ bpm.frames[bpm.pageToFrame[lastOp'.arg]].pinCount = 0)
         => LET f == bpm.pageToFrame[lastOp'.arg] IN
            /\ lastOp'.arg \notin DOMAIN bpm'.pageToFrame
            /\ \E i \in 1..Len(bpm'.freeFrames) : bpm'.freeFrames[i] = f
            /\ f \notin DOMAIN bpm'.lrukreplacer.metadataStore]_vars

\* C23: Unpin of a frame whose pin-count is 0 leaves the pool and the replacer
\* as they were, and no pin-count is ever below 0.
UnpinSaturatesAtZero ==
    [][/\ (lastOp'.op = "Unpin" /\ bpm.frames[lastOp'.arg].pinCount = 0) => bpm' = bpm
       /\ \A f \in DOMAIN bpm'.frames : bpm'.frames[f].pinCount >= 0]_vars

\* Unpin has just been called on a frame that a caller had pinned and released
\* before: its pin-count is 0 and the replacer holds it as evictable
UnpinnedFrameUnpinnedAgain ==
    /\ lastOp.op = "Unpin"
    /\ lastOp.arg2 = 0
    /\ bpm.frames[lastOp.arg].pinCount = 0
    /\ lastOp.arg \in DOMAIN bpm.lrukreplacer.metadataStore
    /\ bpm.lrukreplacer.metadataStore[lastOp.arg].isEvictable
    /\ bpm.lrukreplacer.size = 1

----------------------------------------------------------------------------
(* The tree as its pages hold it.  A node is the keys and the page ids (or     *)
(* record ids) that toBytes wrote: `size` slots, the keys in the first half.   *)

PageOf(m, p) == m.frames[m.pageToFrame[p]].Data

PageKeys(data) == [i \in 1..(data.size \div 2) |-> Slot(data, i)]

\* the children of an inner page, the record ids of a leaf page
PageRefs(data) == [i \in 1..(data.size \div 2) |-> Slot(data, (data.size \div 2) + i)]

IsLeafPage(m, p) == PageOf(m, p).kind = 1

SeqRange(s) == {s[i] : i \in 1..Len(s)}

\* the resident pages an inner page points to
PageChildren(m, p) ==
    IF IsLeafPage(m, p) THEN {}
    ELSE SeqRange(PageRefs(PageOf(m, p))) \cap DOMAIN m.pageToFrame

\* the resident pages the Root object points to
RootChildren(m, t) ==
    IF t.Root.leaf THEN {} ELSE SeqRange(t.Root.children) \cap DOMAIN m.pageToFrame

\* the pages below the root, found by following child page ids
RECURSIVE PagesBelow(_, _, _)
PagesBelow(m, S, fuel) ==
    LET More(T) == IF T \subseteq S \/ fuel = 0 THEN S ELSE PagesBelow(m, S \cup T, fuel - 1)
    IN  More(UNION {PageChildren(m, p) : p \in S})

TreePages(m, t) == PagesBelow(m, RootChildren(m, t), MaxDescent)

\* the inner nodes of the tree: the Root object, when it is one, and the inner pages below it
InnerNodes(m, t) ==
    (IF t.Root.leaf THEN {} ELSE {[keys |-> t.Root.keys, children |-> t.Root.children]})
    \cup {[keys |-> PageKeys(PageOf(m, p)), children |-> PageRefs(PageOf(m, p))] :
             p \in {q \in TreePages(m, t) : ~IsLeafPage(m, q)}}

\* the lengths of the paths from page p down to the leaves
RECURSIVE LeafDepths(_, _, _)
LeafDepths(m, p, fuel) ==
    IF IsLeafPage(m, p) THEN {0}
    ELSE IF fuel = 0 THEN {MaxDescent + 1}
    ELSE {d + 1 : d \in UNION {LeafDepths(m, c, fuel - 1) : c \in PageChildren(m, p)}}

\* the keys held in the leaves at and below page p
RECURSIVE SubtreeKeys(_, _, _)
SubtreeKeys(m, p, fuel) ==
    IF IsLeafPage(m, p) THEN SeqRange(PageKeys(PageOf(m, p)))
    ELSE IF fuel = 0 THEN {}
    ELSE UNION {SubtreeKeys(m, c, fuel - 1) : c \in PageChildren(m, p)}

\* the pages an Insert has added to the resident ones
NewPages(m, m2) == DOMAIN m2.pageToFrame \ DOMAIN m.pageToFrame

\* C24: all paths from the root to a leaf have the same length, and the children
\* of an inner node are all leaves or all inner nodes.
TreeIsBalanced ==
    ~crashed =>
        /\ Cardinality(UNION {LeafDepths(bpm, c, MaxDescent) : c \in RootChildren(bpm, tree)}) <= 1
        /\ \A n \in InnerNodes(bpm, tree) :
              \A c1, c2 \in SeqRange(n.children) \cap DOMAIN bpm.pageToFrame :
                  IsLeafPage(bpm, c1) = IsLeafPage(bpm, c2)

\* C25: in every inner node, the keys in the subtree of child i are at least
\* key i (for i past the sentinel slot) and below key i + 1 (when there is one).
ChildrenCoverKeyRanges ==
    ~crashed =>
        \A n \in InnerNodes(bpm, tree) :
            \A i \in 1..Len(n.children) :
                n.children[i] \in DOMAIN bpm.pageToFrame =>
                    \A k \in SubtreeKeys(bpm, n.children[i], MaxDescent) :
                        /\ (1 < i /\ i <= Len(n.keys)) => n.keys[i] <= k
                        /\ i < Len(n.keys) => k < n.keys[i + 1]

\* C27: every inner node of the tree has the sentinel in its first key slot, as
\* many children as keys, and strictly ascending keys after the sentinel.
InnerNodesWellFormed ==
    ~crashed =>
        \A n \in InnerNodes(bpm, tree) :
            /\ Len(n.keys) >= 1
            /\ n.keys[1] = MinInt
            /\ Len(n.children) = Len(n.keys)
            /\ \A i \in 2..(Len(n.keys) - 1) : n.keys[i] < n.keys[i + 1]

\* C28: after an Insert that split a leaf, the smallest key of the new right leaf
\* stands in an inner node of the tree next to the new leaf's page id, and is
\* still held by the new leaf.
LeafSplitCopiesKeyUp ==
    [][(lastOp'.op = "Insert" /\ ~crashed')
         => \A p \in NewPages(bpm, bpm') :
               IsLeafPage(bpm', p) =>
                   /\ PageOf(bpm', p).size >= 2
                   /\ \E n \in InnerNodes(bpm', tree') :
                         \E i \in 1..Len(n.keys) :
                             /\ i <= Len(n.children)
                             /\ n.keys[i] = PageKeys(PageOf(bpm', p))[1]
                             /\ n.children[i] = p]_vars

\* the leaf pages whose bytes an Insert has rewritten
RewrittenLeaves(m, m2) ==
    {q \in DOMAIN m.pageToFrame \cap DOMAIN m2.pageToFrame :
        IsLeafPage(m2, q) /\ PageOf(m2, q) # PageOf(m, q)}

\* C29: an Insert that split a leaf leaves the first ceil(n/2) of the n entries
\* in the original leaf and the remaining ones in the new right leaf.
LeafSplitsAtCeiling ==
    [][(lastOp'.op = "Insert" /\ ~crashed')
         => \A p \in NewPages(bpm, bpm') : \A q \in RewrittenLeaves(bpm, bpm') :
               (IsLeafPage(bpm', p) /\ PageOf(bpm', p).size > 0) =>
                   LET left  == PageKeys(PageOf(bpm', q))
                       right == PageKeys(PageOf(bpm', p))
                       n     == Len(left) + Len(right)
                   IN  /\ Len(left) = (n + 1) \div 2
                       /\ Len(right) = n - ((n + 1) \div 2)
                       /\ \A i \in 1..Len(left) : \A j \in 1..Len(right) : left[i] < right[j]]_vars

\* the leaves in memory: the Root object, when it is a leaf, and the resident leaf pages
Leaves(m, t) ==
    (IF t.Root.leaf THEN {[keys |-> t.Root.keys, recordIds |-> t.Root.recordIds, even |-> TRUE]}
     ELSE {})
    \cup {[keys |-> PageKeys(PageOf(m, p)), recordIds |-> PageRefs(PageOf(m, p)),
           even |-> PageOf(m, p).size % 2 = 0] :
             p \in {q \in DOMAIN m.pageToFrame : IsLeafPage(m, q)}}

\* C26: in every leaf the keys are strictly ascending, there are as many record
\* ids as keys, and the record id in place i is the one inserted with key i.
LeavesSortedAndPaired ==
    ~crashed =>
        \A l \in Leaves(bpm, tree) :
            /\ l.even
            /\ Len(l.keys) = Len(l.recordIds)
            /\ \A i \in 1..(Len(l.keys) - 1) : l.keys[i] < l.keys[i + 1]
            /\ \A i \in 1..Len(l.keys) :
                  /\ l.keys[i] \in DOMAIN ledger
                  /\ l.recordIds[i] = ledger[l.keys[i]].v

\* an Insert has split a leaf, and a leaf holds a key that arrived after a
\* larger one, with record ids that differ
SplitLeafHoldsLateKey ==
    /\ ~crashed
    /\ lastOp.op = "Insert"
    /\ lastOp.ok
    /\ Cardinality({p \in DOMAIN bpm.pageToFrame :
                       IsLeafPage(bpm, p) /\ PageOf(bpm, p).size >= 4}) >= 2
    /\ \E l \in Leaves(bpm, tree) :
          /\ Len(l.keys) >= 2
          /\ l.keys[1] = lastOp.arg
          /\ l.recordIds[1] # l.recordIds[2]

\* the pages with an inner node's bytes that an Insert has added
NewInnerPages(m, m2) == {p \in NewPages(m, m2) : ~IsLeafPage(m2, p) /\ PageOf(m2, p).size > 0}

\* C30: after an Insert that split the full inner root, every child the root had,
\* and the leaf the Insert added, is a child of exactly one of the two halves (the
\* old root's page and the new inner page), and one key of the node, the middle
\* one, is in neither half.
InnerSplitKeepsChildren ==
    [][(/\ lastOp'.op = "Insert" /\ ~crashed'
        /\ ~tree.Root.leaf
        /\ getSize(tree.Root) >= getMaxSize(tree.Root)
        /\ NewInnerPages(bpm, bpm') # {})
         => \A q \in NewInnerPages(bpm, bpm') :
               LET old == PageOf(bpm', tree.rootPageId)
                   left == SeqRange(PageRefs(old))
                   right == SeqRange(PageRefs(PageOf(bpm', q)))
                   leftKeys == SeqRange(PageKeys(old))
                   rightKeys == SeqRange(PageKeys(PageOf(bpm', q)))
                   newLeaves == {p \in NewPages(bpm, bpm') : IsLeafPage(bpm', p)}
                   keys == SeqRange(tree.Root.keys)
                             \cup {PageKeys(PageOf(bpm', p))[1] : p \in newLeaves}
               IN  /\ \A c \in SeqRange(tree.Root.children) \cup newLeaves :
                         (c \in left) # (c \in right)
                   /\ Len(PageRefs(old)) + Len(PageRefs(PageOf(bpm', q)))
                         = Len(tree.Root.children) + 1
                   /\ leftKeys \cap rightKeys = {}
                   /\ Cardinality(keys \ (leftKeys \cup rightKeys)) = 1]_vars

\* C31: an Insert that split the full inner root leaves a new inner root on a new
\* page, whose first child is the old root's page and whose second entry pairs a
\* key with the page of the new right node.
RootSplitGrowsTree ==
    [][(/\ lastOp'.op = "Insert" /\ ~crashed'
        /\ ~tree.Root.leaf
        /\ getSize(tree.Root) >= getMaxSize(tree.Root)
        /\ NewInnerPages(bpm, bpm') # {})
         => /\ tree'.rootPageId \in NewPages(bpm, bpm')
            /\ ~tree'.Root.leaf
            /\ Len(tree'.Root.children) = 2
            /\ Len(tree'.Root.keys) = 2
            /\ tree'.Root.children[1] = tree.rootPageId
            /\ tree'.Root.children[2] \in NewInnerPages(bpm, bpm') \ {tree'.rootPageId}]_vars

\* C32: the ancestor stack is empty again when an Insert has returned.
AncestorStackEmptyAfterInsert ==
    (lastOp.op = "Insert" /\ ~crashed) => tree.seen = <<>>

\* the right-sibling link a leaf page holds, as fromBytes reads it
RightSiblingOf(m, p) ==
    leafFromBytes(LeafObject(<<>>, <<>>, InvalidPageId, 0), PageOf(m, p)).node.rightSibling

\* the leaf found by following first children down from page p
RECURSIVE LeftmostLeaf(_, _, _)
LeftmostLeaf(m, p, fuel) ==
    IF p \notin DOMAIN m.pageToFrame THEN InvalidPageId
    ELSE IF IsLeafPage(m, p) \/ fuel = 0 \/ PageOf(m, p).size < 2 THEN p
    ELSE LeftmostLeaf(m, PageRefs(PageOf(m, p))[1], fuel - 1)

\* the leaf pages visited by following right-sibling links from leaf page p
RECURSIVE SiblingChain(_, _, _)
SiblingChain(m, p, fuel) ==
    IF p \notin DOMAIN m.pageToFrame \/ fuel = 0 THEN <<>>
    ELSE <<p>> \o SiblingChain(m, RightSiblingOf(m, p), fuel - 1)

\* the leaf pages reachable from the root through child page ids
TreeLeaves(m, t) ==
    IF t.Root.leaf THEN {t.rootPageId} ELSE {p \in TreePages(m, t) : IsLeafPage(m, p)}

\* C33: in a tree whose root has only leaves as children, following
\* right-sibling links from the leftmost leaf visits every leaf of the tree
\* exactly once, in ascending key order, and ends at a leaf whose right-sibling
\* is -1.
SiblingChainVisitsEveryLeaf ==
    (/\ ~crashed /\ ~tree.Root.leaf
     /\ \A c \in RootChildren(bpm, tree) : IsLeafPage(bpm, c)) =>
        LET chain == SiblingChain(bpm, LeftmostLeaf(bpm, tree.Root.children[1], MaxDescent),
                                  GrowPoolSize + 1)
        IN  /\ SeqRange(chain) = TreeLeaves(bpm, tree)
            /\ Len(chain) = Cardinality(TreeLeaves(bpm, tree))
            /\ Len(chain) >= 1
            /\ RightSiblingOf(bpm, chain[Len(chain)]) = InvalidPageId
            /\ \A i \in 1..(Len(chain) - 1) :
                  \A a \in SeqRange(PageKeys(PageOf(bpm, chain[i]))) :
                      \A b \in SeqRange(PageKeys(PageOf(bpm, chain[i + 1]))) : a < b

\* C34: a leaf read back with fromBytes from the bytes toBytes wrote has the
\* keys, the record ids and the right sibling of the leaf that was written.
LeafRoundTrip ==
    lastOp.op = "leafFromBytes" =>
        /\ lastOp.ok
        /\ tree.Root.keys = ledger.keys
        /\ tree.Root.recordIds = ledger.recordIds
        /\ tree.Root.rightSibling = ledger.rightSibling

\* a full leaf without a right sibling, holding key 0 and record id 0, was read back
FullLeafReadBack ==
    /\ lastOp.op = "leafFromBytes"
    /\ Len(ledger.keys) = NodeMaxSize \div 2
    /\ ledger.keys[1] = 0
    /\ ledger.recordIds[Len(ledger.recordIds)] = 0
    /\ ledger.rightSibling = InvalidPageId

\* C35: an inner node read back with fromBytes from the bytes toBytes wrote has
\* the keys, the children and the right sibling of the node that was written.
InnerRoundTrip ==
    lastOp.op = "innerFromBytes" =>
        /\ lastOp.ok
        /\ tree.Root.keys = ledger.keys
        /\ tree.Root.children = ledger.children
        /\ tree.Root.rightSibling = ledger.rightSibling

\* C38: a Get that has returned leaves the Root object, the root page id and the
\* bytes of every resident page as they were.
GetChangesNothing ==
    [][(lastOp'.op = "Get" /\ ~crashed')
         => /\ tree'.Root = tree.Root
            /\ tree'.rootPageId = tree.rootPageId
            /\ DOMAIN bpm'.pageToFrame = DOMAIN bpm.pageToFrame
            /\ \A p \in DOMAIN bpm.pageToFrame : PageOf(bpm', p) = PageOf(bpm, p)]_vars

\* the (key, value) entries held in the leaves reachable from the root
ReachableEntries(m, t) ==
    UNION {{<<PageKeys(PageOf(m, p))[i], PageRefs(PageOf(m, p))[i]>> :
               i \in 1..Len(PageKeys(PageOf(m, p)))} : p \in TreeLeaves(m, t)}

\* the entries whose Insert, the first of its key, returned true
InsertedEntries(led) == {<<k, led[k].v>> : k \in {x \in DOMAIN led : led[x].ok}}

\* C40: the entries held in the leaves reachable from the root are the entries
\* whose Insert returned true with a new key, and no key is held by two leaves.
NoEntryLostOrDuplicated ==
    ~crashed =>
        /\ ReachableEntries(bpm, tree) = InsertedEntries(ledger)
        /\ \A p, q \in TreeLeaves(bpm, tree) :
              p # q => SeqRange(PageKeys(PageOf(bpm, p)))
                         \cap SeqRange(PageKeys(PageOf(bpm, q))) = {}

----------------------------------------------------------------------------
(* Properties of the replacer *)

\* the frames the replacer tracks and would let go
EvictableFrames(lruK) ==
    {f \in DOMAIN lruK.metadataStore : lruK.metadataStore[f].isEvictable}

\* the evictable frames with fewer than k recorded accesses
YoungFrames(lruK) ==
    {f \in EvictableFrames(lruK) : Len(lruK.metadataStore[f].history) < lruK.k}

\* C7: after any sequence of recordAccess, setEvictable, evict and remove, the
\* replacer's size equals the number of tracked frames that are evictable.
ReplacerSizeIsEvictableCount ==
    bpm.lrukreplacer.size = Cardinality(EvictableFrames(bpm.lrukreplacer))

\* an evict has just removed one of two evictable frames, leaving size 1
SizeAfterEvictOfOneOfTwo ==
    /\ lastOp.op = "evict"
    /\ lastOp.ok
    /\ lastOp.res \notin DOMAIN bpm.lrukreplacer.metadataStore
    /\ bpm.lrukreplacer.size = 1
    /\ Cardinality(DOMAIN bpm.lrukreplacer.metadataStore) = 1

\* C8: when evict returns a frame while some evictable frame has fewer than k
\* accesses, the frame returned is the evictable frame with fewer than k accesses
\* that is nearest the front of the lru list: never a frame with k or more
\* accesses that stands ahead of it, never a non-evictable frame.
EvictPrefersYoungestAtFront ==
    [][(lastOp'.op = "evict" /\ lastOp'.ok /\ YoungFrames(bpm.lrukreplacer) # {})
         => /\ lastOp'.res \in YoungFrames(bpm.lrukreplacer)
            /\ \A g \in YoungFrames(bpm.lrukreplacer) :
                  LruIndex(bpm.lrukreplacer, lastOp'.res) <= LruIndex(bpm.lrukreplacer, g)]_vars

\* evict has returned a frame that was not at the front of the lru list, passing
\* over an evictable frame with k or more accesses, which is still tracked
EvictPassedOverOlderFrame ==
    /\ lastOp.op = "evict"
    /\ lastOp.ok
    /\ lastOp.arg > 1
    /\ lastOp.res \notin DOMAIN bpm.lrukreplacer.metadataStore
    /\ \E g \in EvictableFrames(bpm.lrukreplacer) :
          /\ Len(bpm.lrukreplacer.metadataStore[g].history) >= bpm.lrukreplacer.k
          /\ bpm.lrukreplacer.lru[1] = g

\* C9: evict returns a victim whenever at least one tracked frame is evictable,
\* also when exactly one is, and fails only when none is.
EvictSucceedsIffSomeEvictable ==
    [][lastOp'.op = "evict"
         => (lastOp'.ok <=> EvictableFrames(bpm.lrukreplacer) # {})]_vars

\* C10: every successful evict removes the victim's access history and its lru
\* entry and decrements size by one, whether the victim had fewer than k
\* accesses or k or more.
EvictCleansUpVictim ==
    [][(lastOp'.op = "evict" /\ lastOp'.ok)
         => /\ lastOp'.res \notin DOMAIN bpm'.lrukreplacer.metadataStore
            /\ LruIndex(bpm'.lrukreplacer, lastOp'.res) = 0
            /\ bpm'.lrukreplacer.size = bpm.lrukreplacer.size - 1]_vars

\* C22: remove(f) of a tracked non-evictable frame fails and leaves the replacer
\* as it was; of a tracked evictable frame it succeeds, drops the frame's history
\* and lru entry, decrements size by one and leaves the other frames alone; of an
\* untracked frame it succeeds and changes nothing.
RemoveContract ==
    [][lastOp'.op = "remove" =>
        LET f == lastOp'.arg
            r == bpm.lrukreplacer
            r2 == bpm'.lrukreplacer
        IN  IF f \notin DOMAIN r.metadataStore
            THEN lastOp'.ok /\ r2 = r
            ELSE IF ~r.metadataStore[f].isEvictable
                 THEN ~lastOp'.ok /\ r2 = r
                 ELSE /\ lastOp'.ok
                      /\ DOMAIN r2.metadataStore = DOMAIN r.metadataStore \ {f}
                      /\ \A g \in DOMAIN r2.metadataStore :
                            r2.metadataStore[g] = r.metadataStore[g]
                      /\ LruIndex(r2, f) = 0
                      /\ Len(r2.lru) = Len(r.lru) - 1
                      /\ r2.size = r.size - 1]_vars

\* remove has just dropped a tracked evictable frame that stood behind another
\* frame in the lru list; the other frame is still tracked
RemovedEvictableFrame ==
    /\ lastOp.op = "remove"
    /\ lastOp.ok
    /\ lastOp.arg2 = 2
    /\ lastOp.arg \notin DOMAIN bpm.lrukreplacer.metadataStore
    /\ Len(bpm.lrukreplacer.lru) = 1
    /\ Cardinality(DOMAIN bpm.lrukreplacer.metadataStore) = 1

\* the span of the last k accesses of frame f: its most recent access time minus
\* its k-th most recent one
KDistance(lruK, f) ==
    LET h == lruK.metadataStore[f].history
    IN  h[Len(h)] - h[Len(h) - lruK.k + 1]

LastAccess(lruK, f) ==
    LET h == lruK.metadataStore[f].history IN h[Len(h)]

\* the evictable frames whose span of the last k accesses is the largest
LargestKDistanceFrames(lruK) ==
    {f \in EvictableFrames(lruK) :
        \A g \in EvictableFrames(lruK) : KDistance(lruK, g) <= KDistance(lruK, f)}

\* C36: when every evictable frame has at least k accesses, the frame evict
\* returns is an evictable frame whose backward k-distance, the span of its last
\* k accesses, is the largest.
EvictReturnsLargestKDistance ==
    [][(/\ lastOp'.op = "evict" /\ lastOp'.ok
        /\ YoungFrames(bpm.lrukreplacer) = {})
         => lastOp'.res \in LargestKDistanceFrames(bpm.lrukreplacer)]_vars

\* C37: when several evictable frames, all with at least k accesses, tie for the
\* largest backward k-distance, the frame evict returns is the tied frame whose
\* most recent access is the earliest.
EvictBreaksTiesByEarliestAccess ==
    [][(/\ lastOp'.op = "evict" /\ lastOp'.ok
        /\ YoungFrames(bpm.lrukreplacer) = {}
        /\ Cardinality(LargestKDistanceFrames(bpm.lrukreplacer)) >= 2)
         => /\ lastOp'.res \in LargestKDistanceFrames(bpm.lrukreplacer)
            /\ \A g \in LargestKDistanceFrames(bpm.lrukreplacer) :
                  LastAccess(bpm.lrukreplacer, lastOp'.res) <= LastAccess(bpm.lrukreplacer, g)]_vars

\* C39: when an allocation fails because the write of the replacer's victim, a
\* dirty resident page, failed, the victim's page is still resident in its
\* frame, still dirty, and the frame is still evictable in the replacer.
VictimSurvivesFailedWrite ==
    [][(lastOp'.op \in {"GetNewPageFrame", "GetPage"} /\ ~lastOp'.ok)
         => \A v \in lastOp'.victims :
               (/\ v.IsDirty
                /\ v.PageId \in DOMAIN bpm.pageToFrame
                /\ bpm.pageToFrame[v.PageId] = v.frame)
                 => /\ v.PageId \in DOMAIN bpm'.pageToFrame
                    /\ bpm'.pageToFrame[v.PageId] = v.frame
                    /\ bpm'.frames[v.frame].IsDirty
                    /\ v.frame \in EvictableFrames(bpm'.lrukreplacer)]_vars

====
